---- MODULE Spec2Model ----
(***************************************************************************)
(* Multi-tenant SaaS backend: RBAC tables, the /rbac routes over them, the *)
(* decomposed user-role / organization routes, the notification log/stats  *)
(* gates and the email-verification route.                                 *)
(*                                                                         *)
(* The relational store is modelled as sets of rows.  Row identifiers are  *)
(* database-generated UUIDs; the model draws them from small pools and     *)
(* gives a new row the least identifier not in the table (every reference  *)
(* to a deleted row is removed by the ON DELETE CASCADE foreign keys, so a *)
(* recycled identifier cannot be told from a fresh one).                   *)
(***************************************************************************)
EXTENDS Naturals, FiniteSets, Sequences, TLC

VARIABLES
    roles,             \* table roles: rows [id, name, description, is_system_role]
    permissions,       \* table permissions: rows [id, name, description]
    role_permissions,  \* table role_permissions: rows [role_id, permission_id]
    user_roles,        \* table user_roles: rows [id, user_id, role_id, organization_id]
    organizations,     \* table organizations: rows [id, name, slug]
    auth_users,        \* identity provider users: rows [id, email_confirmed]
    tokens,            \* table email_verification_tokens: rows [token, user_id, expires_at, used]
    issued,            \* every verification token generated so far
    now,               \* the clock, in hours
    muts,              \* number of requests so far that changed a table
    resp,              \* the response of the last request
    supabase_url,          \* settings.supabase_url
    supabase_service_key,  \* settings.supabase_service_key
    client,                \* supabase_config._client, the lazily created client
    inflight           \* assign-role requests being handled step by step

vars == <<roles, permissions, role_permissions, user_roles, organizations,
          auth_users, tokens, issued, now, muts, resp,
          supabase_url, supabase_service_key, client, inflight>>

rbac_tables == <<roles, permissions, role_permissions, user_roles, organizations>>
verify_tables == <<auth_users, tokens, issued, now>>
settings_vars == <<supabase_url, supabase_service_key, client>>

----------------------------------------------------------------------------
(* Bounds *)

MaxMuts == 2          \* table-changing requests in one behaviour
MaxUserRoles == 4     \* rows the user_roles table can hold
MaxNow == 36          \* hours the clock runs

----------------------------------------------------------------------------
(* Values *)

None == "None"

\* Callers are whatever the bearer token's sub claim says.
Users == {"root", "alice", "bob"}

OrgIds == {"o1", "o2", "o3"}
RoleIds == {"r_platform_admin", "r_org_admin", "r_regular_user", "r_new"}
PermIds == {"p_user_read", "p_organization_read", "p_billing_read", "p_new"}
UserRoleIds == 1..MaxUserRoles

Scopes == OrgIds \cup {None}

\* The least identifier of pool (in the given order) that no row of table uses.
FreshId(order, table) ==
    LET used == {x.id : x \in table}
        free == {i \in 1..Len(order) : order[i] \notin used}
    IN  IF free = {} THEN None
        ELSE order[CHOOSE i \in free : \A j \in free : i <= j]

RoleIdOrder == <<"r_new">>
PermIdOrder == <<"p_new">>
OrgIdOrder == <<"o1", "o2", "o3">>

FreshUserRoleId ==
    LET free == {i \in UserRoleIds : \A x \in user_roles : x.id # i}
    IN  IF free = {} THEN 0 ELSE CHOOSE i \in free : \A j \in free : i <= j

----------------------------------------------------------------------------
(* Seed data of migration 91759229c32b, restricted to three of the nineteen *)
(* permissions.                                                             *)

SeedRoles ==
    { [id |-> "r_platform_admin", name |-> "platform_admin", description |-> "d0", is_system_role |-> TRUE],
      [id |-> "r_org_admin",      name |-> "org_admin",      description |-> "d0", is_system_role |-> TRUE],
      [id |-> "r_regular_user",   name |-> "regular_user",   description |-> "d0", is_system_role |-> TRUE] }

SeedPermissions ==
    { [id |-> "p_user_read",         name |-> "user:read",         description |-> "d0"],
      [id |-> "p_organization_read", name |-> "organization:read", description |-> "d0"],
      [id |-> "p_billing_read",      name |-> "billing:read",      description |-> "d0"] }

SeedRolePermissions ==
    { [role_id |-> "r_platform_admin", permission_id |-> p.id] : p \in SeedPermissions }
    \cup
    { [role_id |-> r, permission_id |-> p] :
        r \in {"r_org_admin", "r_regular_user"},
        p \in {"p_user_read", "p_organization_read"} }

\* A small deployment on top of the seed.  The operator granted root the
\* platform_admin role at platform scope; alice created organization acme
\* through POST /organizations/self and so became its org_admin; root
\* created organization globex through POST /organizations.  alice and bob
\* signed up with the identity provider and have not confirmed their email.
BootstrapUserRoles ==
    { [id |-> 1, user_id |-> "root",  role_id |-> "r_platform_admin", organization_id |-> None],
      [id |-> 2, user_id |-> "alice", role_id |-> "r_org_admin",      organization_id |-> "o1"] }

BootstrapOrganizations ==
    { [id |-> "o1", name |-> "acme",   slug |-> "acme"],
      [id |-> "o2", name |-> "globex", slug |-> "globex"] }

BootstrapAuthUsers ==
    { [id |-> "root",  email_confirmed |-> TRUE],
      [id |-> "alice", email_confirmed |-> FALSE],
      [id |-> "bob",   email_confirmed |-> FALSE] }

\* A response: the route, the caller, the HTTP status, the request's user,
\* role id, role or permission name and organization, a string of the body
\* and a set of the body.
NoResp == [op |-> "none", caller |-> None, status |-> 0, user |-> None,
           role |-> None, name |-> None, org |-> None, body |-> None, data |-> {}]

RespData(op, caller, status, user, role, org, body, data) ==
    [op |-> op, caller |-> caller, status |-> status, user |-> user,
     role |-> role, name |-> None, org |-> org, body |-> body, data |-> data]

RespNamed(op, caller, status, user, name, org, body) ==
    [op |-> op, caller |-> caller, status |-> status, user |-> user,
     role |-> None, name |-> name, org |-> org, body |-> body, data |-> {}]

Resp(op, caller, status, user, role, org, body) ==
    RespData(op, caller, status, user, role, org, body, {})

\* A response of a route that reports the identity-provider calls the
\* request made, as the set of their names.
RespCalls(op, caller, status, user, name, body, calls) ==
    [op |-> op, caller |-> caller, status |-> status, user |-> user,
     role |-> None, name |-> name, org |-> None, body |-> body, data |-> calls]

\* A setting read from the environment: absent, empty or given.
SettingInputs == {None, "", "given"}

\* A bootstrapped deployment: both settings given, the client created by
\* the requests that made the bootstrap rows.
Init ==
    /\ roles = SeedRoles
    /\ permissions = SeedPermissions
    /\ role_permissions = SeedRolePermissions
    /\ user_roles = BootstrapUserRoles
    /\ organizations = BootstrapOrganizations
    /\ auth_users = BootstrapAuthUsers
    /\ tokens = {}
    /\ issued = {}
    /\ now = 0
    /\ muts = 0
    /\ resp = NoResp
    /\ supabase_url = "given"
    /\ supabase_service_key = "given"
    /\ client = "client"
    /\ inflight = {}

\* The state after start-up under any settings: the tables of a
\* bootstrapped deployment, no client created yet.
InitAnySettings ==
    /\ roles = SeedRoles
    /\ permissions = SeedPermissions
    /\ role_permissions = SeedRolePermissions
    /\ user_roles = BootstrapUserRoles
    /\ organizations = BootstrapOrganizations
    /\ auth_users = BootstrapAuthUsers
    /\ tokens = {}
    /\ issued = {}
    /\ now = 0
    /\ muts = 0
    /\ resp = NoResp
    /\ supabase_url \in SettingInputs
    /\ supabase_service_key \in SettingInputs
    /\ client = None
    /\ inflight = {}

----------------------------------------------------------------------------
(* Errors.  Services return (result, error string); routes pick the HTTP    *)
(* status by searching the string for "not found" or "system roles".        *)

UniqueViolation == "duplicate key value violates unique constraint"
ForeignKeyViolation == "violates foreign key constraint"

ErrorsWithNotFound ==
    { "Role not found", "Role not found or update failed",
      "Permission not found", "Permission not found or update failed",
      "Role-permission assignment not found",
      "User role assignment not found",
      "User role assignment not found or update failed",
      "Organization not found" }

\* "not found" in error.lower()
ContainsNotFound(error) == error \in ErrorsWithNotFound

\* "system roles" in error.lower(): no string any service returns has it.
ContainsSystemRoles(error) == FALSE

----------------------------------------------------------------------------
(* One request, handled from start to end: the new tables and the response *)
(* in flight.  A request that changes a table counts against MaxMuts.      *)

\* The server is idle: no response is in flight.
Idle == resp = NoResp

Request(newRoles, newPermissions, newRolePermissions, newUserRoles, newOrganizations, r) ==
    LET changed == <<newRoles, newPermissions, newRolePermissions, newUserRoles, newOrganizations>>
                     # rbac_tables
    IN  /\ Idle
        /\ changed => muts < MaxMuts
        /\ roles' = newRoles
        /\ permissions' = newPermissions
        /\ role_permissions' = newRolePermissions
        /\ user_roles' = newUserRoles
        /\ organizations' = newOrganizations
        /\ muts' = IF changed THEN muts + 1 ELSE muts
        /\ resp' = r
        /\ UNCHANGED <<verify_tables, settings_vars, inflight>>

\* A request that leaves every table alone.
Reply(r) ==
    /\ Idle
    /\ resp' = r
    /\ UNCHANGED <<rbac_tables, verify_tables, muts, settings_vars, inflight>>

\* The client takes the response; the server handles the next request.
Receive ==
    /\ resp # NoResp
    /\ resp' = NoResp
    /\ UNCHANGED <<rbac_tables, verify_tables, muts, settings_vars, inflight>>

----------------------------------------------------------------------------
(* Role resolution (user_role_service.user_has_role / rbac_service.         *)
(* user_has_role): resolve the role by name, then look for a user_roles row *)
(* matching the user and the scope.                                         *)

user_has_role(user_id, role_name, organization_id) ==
    LET named == {r \in roles : r.name = role_name}
    IN  IF named = {}
        THEN [has |-> FALSE, error |-> "Role not found"]
        ELSE [has |-> \E ur \in user_roles :
                          /\ ur.user_id = user_id
                          /\ ur.role_id \in {r.id : r \in named}
                          /\ ur.organization_id = organization_id,
              error |-> None]

\* The gate with the role looked up in whatever scope the caller holds it.
PlatformAdminGate_any_scope(current_user_id) ==
    \E o \in Scopes :
        LET c == user_has_role(current_user_id, "platform_admin", o)
        IN  ~(c.error # None \/ ~c.has)

\* has_role, error = await rbac_service.user_has_role(current_user_id, "platform_admin")
\* if error or not has_role: raise 403
PlatformAdminGate(current_user_id) ==
    LET c == user_has_role(current_user_id, "platform_admin", None)
    IN  ~(c.error # None \/ ~c.has)

----------------------------------------------------------------------------
(* RBACService: roles *)

RBACService_get_role_by_id(role_id) ==
    IF \E r \in roles : r.id = role_id
    THEN [role |-> CHOOSE r \in roles : r.id = role_id, error |-> None]
    ELSE [role |-> None, error |-> "Role not found"]

RBACService_get_role_by_name(name) ==
    IF \E r \in roles : r.name = name
    THEN [role |-> CHOOSE r \in roles : r.name = name, error |-> None]
    ELSE [role |-> None, error |-> "Role not found"]

\* insert into roles; the unique constraint on name raises, str(e) is the error
RBACService_create_role(role_data) ==
    IF \E r \in roles : r.name = role_data.name
    THEN [roles |-> roles, role |-> None, error |-> UniqueViolation]
    ELSE LET row == [id |-> FreshId(RoleIdOrder, roles), name |-> role_data.name,
                     description |-> role_data.description,
                     is_system_role |-> role_data.is_system_role]
         IN  [roles |-> roles \cup {row}, role |-> row, error |-> None]

\* update_data holds name and description when they are not None
RBACService_update_role(role_id, role_data) ==
    IF role_data.name = None /\ role_data.description = None
    THEN LET g == RBACService_get_role_by_id(role_id)
         IN  [roles |-> roles, role |-> g.role, error |-> g.error]
    ELSE IF ~ \E r \in roles : r.id = role_id
    THEN [roles |-> roles, role |-> None, error |-> "Role not found or update failed"]
    ELSE LET old == CHOOSE r \in roles : r.id = role_id
             new == [old EXCEPT
                       !.name = IF role_data.name # None THEN role_data.name ELSE @,
                       !.description = IF role_data.description # None
                                       THEN role_data.description ELSE @]
         IN  IF \E r \in roles : r.id # role_id /\ r.name = new.name
             THEN [roles |-> roles, role |-> None, error |-> UniqueViolation]
             ELSE [roles |-> (roles \ {old}) \cup {new}, role |-> new, error |-> None]

\* three deletes in order: role_permissions, user_roles, roles
RBACService_delete_role(role_id) ==
    LET rp == {x \in role_permissions : x.role_id # role_id}
        ur == {x \in user_roles : x.role_id # role_id}
        deleted == {r \in roles : r.id = role_id}
    IN  [role_permissions |-> rp, user_roles |-> ur, roles |-> roles \ deleted,
         success |-> deleted # {},
         error |-> IF deleted = {} THEN "Role not found" ELSE None]

----------------------------------------------------------------------------
(* RBACService: permissions and role-permission links *)

RBACService_get_permission_by_id(perm_id) ==
    IF \E p \in permissions : p.id = perm_id
    THEN [permission |-> CHOOSE p \in permissions : p.id = perm_id, error |-> None]
    ELSE [permission |-> None, error |-> "Permission not found"]

RBACService_get_permission_by_name(name) ==
    IF \E p \in permissions : p.name = name
    THEN [permission |-> CHOOSE p \in permissions : p.name = name, error |-> None]
    ELSE [permission |-> None, error |-> "Permission not found"]

RBACService_create_permission(perm_data) ==
    IF \E p \in permissions : p.name = perm_data.name
    THEN [permissions |-> permissions, permission |-> None, error |-> UniqueViolation]
    ELSE LET row == [id |-> FreshId(PermIdOrder, permissions), name |-> perm_data.name,
                     description |-> perm_data.description]
         IN  [permissions |-> permissions \cup {row}, permission |-> row, error |-> None]

RBACService_update_permission(perm_id, perm_data) ==
    IF perm_data.name = None /\ perm_data.description = None
    THEN LET g == RBACService_get_permission_by_id(perm_id)
         IN  [permissions |-> permissions, permission |-> g.permission, error |-> g.error]
    ELSE IF ~ \E p \in permissions : p.id = perm_id
    THEN [permissions |-> permissions, permission |-> None,
          error |-> "Permission not found or update failed"]
    ELSE LET old == CHOOSE p \in permissions : p.id = perm_id
             new == [old EXCEPT
                       !.name = IF perm_data.name # None THEN perm_data.name ELSE @,
                       !.description = IF perm_data.description # None
                                       THEN perm_data.description ELSE @]
         IN  IF \E p \in permissions : p.id # perm_id /\ p.name = new.name
             THEN [permissions |-> permissions, permission |-> None, error |-> UniqueViolation]
             ELSE [permissions |-> (permissions \ {old}) \cup {new}, permission |-> new,
                   error |-> None]

\* two deletes in order: role_permissions, permissions
RBACService_delete_permission(perm_id) ==
    LET rp == {x \in role_permissions : x.permission_id # perm_id}
        deleted == {p \in permissions : p.id = perm_id}
    IN  [role_permissions |-> rp, permissions |-> permissions \ deleted,
         success |-> deleted # {},
         error |-> IF deleted = {} THEN "Permission not found" ELSE None]

\* insert into role_permissions: foreign keys on both columns, unique (role_id, permission_id)
RBACService_assign_permission_to_role(role_id, permission_id) ==
    LET row == [role_id |-> role_id, permission_id |-> permission_id]
    IN  IF ~(\E r \in roles : r.id = role_id) \/ ~(\E p \in permissions : p.id = permission_id)
        THEN [role_permissions |-> role_permissions, role_permission |-> None,
              error |-> ForeignKeyViolation]
        ELSE IF row \in role_permissions
        THEN [role_permissions |-> role_permissions, role_permission |-> None,
              error |-> UniqueViolation]
        ELSE [role_permissions |-> role_permissions \cup {row}, role_permission |-> row,
              error |-> None]

RBACService_remove_permission_from_role(role_id, permission_id) ==
    LET deleted == {x \in role_permissions :
                      x.role_id = role_id /\ x.permission_id = permission_id}
    IN  [role_permissions |-> role_permissions \ deleted,
         success |-> deleted # {},
         error |-> IF deleted = {} THEN "Role-permission assignment not found" ELSE None]

\* select permissions(*) from role_permissions where role_id = ...
RBACService_get_permissions_for_role(role_id) ==
    {p \in permissions :
        \E x \in role_permissions : x.role_id = role_id /\ x.permission_id = p.id}

----------------------------------------------------------------------------
(* /rbac routes: roles *)

RoleCreateInputs ==
    { [name |-> n, description |-> "d0", is_system_role |-> b] :
        n \in {"auditor", "org_admin"}, b \in BOOLEAN }

RoleUpdateInputs ==
    { [name |-> n, description |-> d] :
        n \in {None, "reviewer", "org_admin"}, d \in {None, "d1"} }

rbac_create_role(current_user_id, role_data) ==
    IF ~PlatformAdminGate(current_user_id)
    THEN Reply(Resp("create_role", current_user_id, 403, None, None, None, None))
    ELSE LET res == RBACService_create_role(role_data)
         IN  /\ res.error = None => FreshId(RoleIdOrder, roles) # None
             /\ Request(res.roles, permissions, role_permissions, user_roles, organizations,
                        IF res.error # None
                        THEN Resp("create_role", current_user_id, 400, None, None, None, res.error)
                        ELSE Resp("create_role", current_user_id, 201, None, res.role.id, None, None))

rbac_update_role(current_user_id, role_id, role_data) ==
    IF ~PlatformAdminGate(current_user_id)
    THEN Reply(Resp("update_role", current_user_id, 403, None, role_id, None, None))
    ELSE LET res == RBACService_update_role(role_id, role_data)
         IN  Request(res.roles, permissions, role_permissions, user_roles, organizations,
                     IF res.error # None
                     THEN Resp("update_role", current_user_id,
                               IF ContainsNotFound(res.error) THEN 404 ELSE 400,
                               None, role_id, None, res.error)
                     ELSE Resp("update_role", current_user_id, 200, None, role_id, None, None))

rbac_delete_role(current_user_id, role_id) ==
    IF ~PlatformAdminGate(current_user_id)
    THEN Reply(Resp("delete_role", current_user_id, 403, None, role_id, None, None))
    ELSE LET res == RBACService_delete_role(role_id)
         IN  Request(res.roles, permissions, res.role_permissions, res.user_roles, organizations,
                     IF res.error # None
                     THEN Resp("delete_role", current_user_id,
                               IF ContainsNotFound(res.error) THEN 404
                               ELSE IF ContainsSystemRoles(res.error) THEN 400 ELSE 500,
                               None, role_id, None, res.error)
                     ELSE Resp("delete_role", current_user_id, 204, None, role_id, None, None))

----------------------------------------------------------------------------
(* /rbac routes: permissions and role-permission links *)

PermissionCreateInputs ==
    { [name |-> n, description |-> "d0"] : n \in {"report:read", "billing:read"} }

PermissionUpdateInputs ==
    { [name |-> n, description |-> d] : n \in {None, "report:write"}, d \in {None, "d1"} }

rbac_create_permission(current_user_id, permission_data) ==
    IF ~PlatformAdminGate(current_user_id)
    THEN Reply(Resp("create_permission", current_user_id, 403, None, None, None, None))
    ELSE LET res == RBACService_create_permission(permission_data)
         IN  /\ res.error = None => FreshId(PermIdOrder, permissions) # None
             /\ Request(roles, res.permissions, role_permissions, user_roles, organizations,
                        IF res.error # None
                        THEN Resp("create_permission", current_user_id, 400, None, None, None, res.error)
                        ELSE Resp("create_permission", current_user_id, 201, None, None, None,
                                  res.permission.id))

rbac_update_permission(current_user_id, permission_id, permission_data) ==
    IF ~PlatformAdminGate(current_user_id)
    THEN Reply(Resp("update_permission", current_user_id, 403, None, None, None, permission_id))
    ELSE LET res == RBACService_update_permission(permission_id, permission_data)
         IN  Request(roles, res.permissions, role_permissions, user_roles, organizations,
                     Resp("update_permission", current_user_id,
                          IF res.error = None THEN 200
                          ELSE IF ContainsNotFound(res.error) THEN 404 ELSE 400,
                          None, None, None, permission_id))

rbac_delete_permission(current_user_id, permission_id) ==
    IF ~PlatformAdminGate(current_user_id)
    THEN Reply(Resp("delete_permission", current_user_id, 403, None, None, None, permission_id))
    ELSE LET res == RBACService_delete_permission(permission_id)
         IN  Request(roles, res.permissions, res.role_permissions, user_roles, organizations,
                     Resp("delete_permission", current_user_id,
                          IF res.error = None THEN 204
                          ELSE IF ContainsNotFound(res.error) THEN 404 ELSE 500,
                          None, None, None, permission_id))

rbac_assign_permission_to_role(current_user_id, role_id, permission_id) ==
    IF ~PlatformAdminGate(current_user_id)
    THEN Reply(Resp("assign_permission_to_role", current_user_id, 403, None, role_id, None,
                    permission_id))
    ELSE LET res == RBACService_assign_permission_to_role(role_id, permission_id)
         IN  Request(roles, permissions, res.role_permissions, user_roles, organizations,
                     Resp("assign_permission_to_role", current_user_id,
                          IF res.error = None THEN 201
                          ELSE IF ContainsNotFound(res.error) THEN 404 ELSE 400,
                          None, role_id, None, permission_id))

rbac_remove_permission_from_role(current_user_id, role_id, permission_id) ==
    IF ~PlatformAdminGate(current_user_id)
    THEN Reply(Resp("remove_permission_from_role", current_user_id, 403, None, role_id, None,
                    permission_id))
    ELSE LET res == RBACService_remove_permission_from_role(role_id, permission_id)
         IN  Request(roles, permissions, res.role_permissions, user_roles, organizations,
                     Resp("remove_permission_from_role", current_user_id,
                          IF res.error = None THEN 204
                          ELSE IF ContainsNotFound(res.error) THEN 404 ELSE 500,
                          None, role_id, None, permission_id))

----------------------------------------------------------------------------
(* The user_roles table's constraints (migration 91759229c32b).  PostgreSQL *)
(* treats NULLs as distinct in a unique constraint, so UNIQUE (user_id,     *)
(* organization_id) only binds rows whose organization_id is not NULL.      *)

UserRolesUniqueViolated(rows, row) ==
    \E x \in rows :
        /\ x.id # row.id
        /\ x.user_id = row.user_id
        /\ row.organization_id # None
        /\ x.organization_id = row.organization_id

UserRolesForeignKeyViolated(row, orgs) ==
    \/ ~ \E u \in auth_users : u.id = row.user_id
    \/ ~ \E r \in roles : r.id = row.role_id
    \/ row.organization_id # None /\ ~ \E o \in orgs : o.id = row.organization_id

\* insert into user_roles, the organizations table being orgs
InsertUserRole(orgs, user_role_data) ==
    LET row == [id |-> FreshUserRoleId, user_id |-> user_role_data.user_id,
                role_id |-> user_role_data.role_id,
                organization_id |-> user_role_data.organization_id]
    IN  IF UserRolesForeignKeyViolated(row, orgs)
        THEN [user_roles |-> user_roles, user_role |-> None, error |-> ForeignKeyViolation]
        ELSE IF UserRolesUniqueViolated(user_roles, row)
        THEN [user_roles |-> user_roles, user_role |-> None, error |-> UniqueViolation]
        ELSE [user_roles |-> user_roles \cup {row}, user_role |-> row, error |-> None]

----------------------------------------------------------------------------
(* RBACService: user-role assignments *)

\* a plain insert; organization_id is left NULL unless the request has one
RBACService_assign_role_to_user(user_role_data) ==
    InsertUserRole(organizations, user_role_data)

RBACService_get_user_role_by_id(user_role_id) ==
    IF \E x \in user_roles : x.id = user_role_id
    THEN [user_role |-> CHOOSE x \in user_roles : x.id = user_role_id, error |-> None]
    ELSE [user_role |-> None, error |-> "User role assignment not found"]

\* update_data holds organization_id when it is not None; role_id is never written
RBACService_update_user_role(user_role_id, user_role_data) ==
    IF user_role_data.organization_id = None
    THEN LET g == RBACService_get_user_role_by_id(user_role_id)
         IN  [user_roles |-> user_roles, user_role |-> g.user_role, error |-> g.error]
    ELSE IF ~ \E x \in user_roles : x.id = user_role_id
    THEN [user_roles |-> user_roles, user_role |-> None,
          error |-> "User role assignment not found or update failed"]
    ELSE LET old == CHOOSE x \in user_roles : x.id = user_role_id
             new == [old EXCEPT !.organization_id = user_role_data.organization_id]
         IN  IF UserRolesForeignKeyViolated(new, organizations)
             THEN [user_roles |-> user_roles, user_role |-> None, error |-> ForeignKeyViolation]
             ELSE IF UserRolesUniqueViolated(user_roles, new)
             THEN [user_roles |-> user_roles, user_role |-> None, error |-> UniqueViolation]
             ELSE [user_roles |-> (user_roles \ {old}) \cup {new}, user_role |-> new,
                   error |-> None]

RBACService_remove_role_from_user(user_role_id) ==
    LET deleted == {x \in user_roles : x.id = user_role_id}
    IN  [user_roles |-> user_roles \ deleted,
         success |-> deleted # {},
         error |-> IF deleted = {} THEN "User role assignment not found" ELSE None]

----------------------------------------------------------------------------
(* /rbac routes: user-role assignments *)

UserRoleCreateInputs ==
    { [user_id |-> u, role_id |-> r, organization_id |-> o] :
        u \in Users, r \in RoleIds, o \in Scopes }

UserRoleUpdateInputs ==
    { [role_id |-> r, organization_id |-> o] :
        r \in {None, "r_regular_user"}, o \in Scopes }

\* The authorization with the platform-wide branch left out: every request
\* goes through the organization branch.
rbac_assign_role_to_user_authorized_no_platform_branch(current_user_id, user_role_data) ==
    LET c1 == user_has_role(current_user_id, "platform_admin", None)
        c2 == user_has_role(current_user_id, "org_admin", user_role_data.organization_id)
    IN  IF ~c1.has THEN ~(c2.error # None \/ ~c2.has) ELSE TRUE

\* The authorization of POST /rbac/user-roles.
rbac_assign_role_to_user_authorized(current_user_id, user_role_data) ==
    IF user_role_data.organization_id = None
    THEN PlatformAdminGate(current_user_id)
    ELSE LET c1 == user_has_role(current_user_id, "platform_admin", None)
             c2 == user_has_role(current_user_id, "org_admin", user_role_data.organization_id)
         IN  IF ~c1.has THEN ~(c2.error # None \/ ~c2.has) ELSE TRUE

rbac_assign_role_to_user(current_user_id, user_role_data) ==
    IF ~rbac_assign_role_to_user_authorized(current_user_id, user_role_data)
    THEN Reply(Resp("assign_role_to_user", current_user_id, 403, user_role_data.user_id,
                    user_role_data.role_id, user_role_data.organization_id, None))
    ELSE LET res == RBACService_assign_role_to_user(user_role_data)
         IN  /\ res.error = None => FreshUserRoleId # 0
             /\ Request(roles, permissions, role_permissions, res.user_roles, organizations,
                        Resp("assign_role_to_user", current_user_id,
                             IF res.error = None THEN 201
                             ELSE IF ContainsNotFound(res.error) THEN 404 ELSE 400,
                             user_role_data.user_id, user_role_data.role_id,
                             user_role_data.organization_id, None))

rbac_update_user_role(current_user_id, user_role_id, user_role_data) ==
    IF ~PlatformAdminGate(current_user_id)
    THEN Reply(Resp("update_user_role", current_user_id, 403, None, None,
                    user_role_data.organization_id, None))
    ELSE LET res == RBACService_update_user_role(user_role_id, user_role_data)
         IN  Request(roles, permissions, role_permissions, res.user_roles, organizations,
                     RespData("update_user_role", current_user_id,
                              IF res.error = None THEN 200
                              ELSE IF ContainsNotFound(res.error) THEN 404 ELSE 400,
                              None, user_role_data.role_id, user_role_data.organization_id,
                              None, {user_role_id}))

rbac_remove_role_from_user(current_user_id, user_role_id) ==
    IF ~PlatformAdminGate(current_user_id)
    THEN Reply(Resp("remove_role_from_user", current_user_id, 403, None, None, None, None))
    ELSE LET res == RBACService_remove_role_from_user(user_role_id)
         IN  Request(roles, permissions, role_permissions, res.user_roles, organizations,
                     Resp("remove_role_from_user", current_user_id,
                          IF res.error = None THEN 204
                          ELSE IF ContainsNotFound(res.error) THEN 404 ELSE 500,
                          None, None, None, None))

----------------------------------------------------------------------------
(* The decomposed user-role routes (rbac/user_roles/routes.py) over         *)
(* user_role_service, whose operations are those of RBACService.            *)

user_role_service_assign_role_to_user(user_role_data) ==
    InsertUserRole(organizations, user_role_data)

user_role_service_update_user_role(user_role_id, user_role_data) ==
    RBACService_update_user_role(user_role_id, user_role_data)

user_role_service_remove_role_from_user(user_role_id) ==
    RBACService_remove_role_from_user(user_role_id)

role_service_get_role_by_name(name) ==
    RBACService_get_role_by_name(name)

\* is_authorized with the org_admin check not bound to the request's
\* organization.
user_roles_assign_role_to_user_authorized_any_org(current_user_id, user_role_data) ==
    LET c1 == user_has_role(current_user_id, "platform_admin", None)
    IN  IF user_role_data.organization_id # None
        THEN IF c1.has /\ c1.error = None THEN TRUE
             ELSE \E o \in OrgIds :
                     LET c2 == user_has_role(current_user_id, "org_admin", o)
                     IN  c2.has /\ c2.error = None
        ELSE c1.has /\ c1.error = None

\* is_authorized of POST /user-roles
user_roles_assign_role_to_user_authorized(current_user_id, user_role_data) ==
    LET c1 == user_has_role(current_user_id, "platform_admin", None)
        c2 == user_has_role(current_user_id, "org_admin", user_role_data.organization_id)
    IN  IF user_role_data.organization_id # None
        THEN IF c1.has /\ c1.error = None THEN TRUE ELSE c2.has /\ c2.error = None
        ELSE c1.has /\ c1.error = None

user_roles_assign_role_to_user(current_user_id, user_role_data) ==
    IF ~user_roles_assign_role_to_user_authorized(current_user_id, user_role_data)
    THEN Reply(Resp("user_roles.assign_role_to_user", current_user_id, 403,
                    user_role_data.user_id, user_role_data.role_id,
                    user_role_data.organization_id, None))
    ELSE LET res == user_role_service_assign_role_to_user(user_role_data)
         IN  /\ res.error = None => FreshUserRoleId # 0
             /\ Request(roles, permissions, role_permissions, res.user_roles, organizations,
                        Resp("user_roles.assign_role_to_user", current_user_id,
                             IF res.error = None THEN 201 ELSE 400,
                             user_role_data.user_id, user_role_data.role_id,
                             user_role_data.organization_id, None))

user_roles_update_user_role(current_user_id, user_role_id, user_role_data) ==
    IF ~PlatformAdminGate(current_user_id)
    THEN Reply(Resp("user_roles.update_user_role", current_user_id, 403, None, None,
                    user_role_data.organization_id, None))
    ELSE LET res == user_role_service_update_user_role(user_role_id, user_role_data)
         IN  Request(roles, permissions, role_permissions, res.user_roles, organizations,
                     RespData("user_roles.update_user_role", current_user_id,
                              IF res.error = None THEN 200
                              ELSE IF ContainsNotFound(res.error) THEN 404 ELSE 400,
                              None, user_role_data.role_id, user_role_data.organization_id,
                              None, {user_role_id}))

user_roles_remove_role_from_user(current_user_id, user_role_id) ==
    IF ~PlatformAdminGate(current_user_id)
    THEN Reply(Resp("user_roles.remove_role_from_user", current_user_id, 403, None, None,
                    None, None))
    ELSE LET res == user_role_service_remove_role_from_user(user_role_id)
         IN  Request(roles, permissions, role_permissions, res.user_roles, organizations,
                     Resp("user_roles.remove_role_from_user", current_user_id,
                          IF res.error = None THEN 204
                          ELSE IF ContainsNotFound(res.error) THEN 404 ELSE 500,
                          None, None, None, None))

----------------------------------------------------------------------------
(* Organizations: service and routes *)

OrganizationCreateInputs ==
    { [name |-> "initech", slug |-> "initech"],
      [name |-> "acme",    slug |-> "acme-2"],
      [name |-> "hooli",   slug |-> "globex"] }

\* insert into organizations: name and slug are each unique
OrganizationService_create_organization(org_data) ==
    IF \E o \in organizations : o.name = org_data.name \/ o.slug = org_data.slug
    THEN [organizations |-> organizations, organization |-> None, error |-> UniqueViolation]
    ELSE LET row == [id |-> FreshId(OrgIdOrder, organizations), name |-> org_data.name,
                     slug |-> org_data.slug]
         IN  [organizations |-> organizations \cup {row}, organization |-> row,
              error |-> None]

\* delete from organizations; user_roles rows of the organization go with it
\* (ON DELETE CASCADE)
OrganizationService_delete_organization(org_id) ==
    LET deleted == {o \in organizations : o.id = org_id}
    IN  [organizations |-> organizations \ deleted,
         user_roles |-> IF deleted = {} THEN user_roles
                        ELSE {x \in user_roles : x.organization_id # org_id},
         success |-> deleted # {},
         error |-> IF deleted = {} THEN "Organization not found" ELSE None]

organization_create_organization(current_user_id, org_data) ==
    IF ~PlatformAdminGate(current_user_id)
    THEN Reply(Resp("create_organization", current_user_id, 403, None, None, None, None))
    ELSE LET res == OrganizationService_create_organization(org_data)
         IN  /\ res.error = None => FreshId(OrgIdOrder, organizations) # None
             /\ Request(roles, permissions, role_permissions, user_roles, res.organizations,
                        IF res.error # None
                        THEN Resp("create_organization", current_user_id, 400, None, None,
                                  None, res.error)
                        ELSE Resp("create_organization", current_user_id, 201, None, None,
                                  res.organization.id, None))

\* The route with a failed role lookup or assignment answered as a failure.
organization_create_self_organization_assignment_fatal(current_user_id, org_data) ==
    LET res == OrganizationService_create_organization(org_data)
    IN  IF res.error # None
        THEN Reply(Resp("create_self_organization", current_user_id, 500, None, None, None,
                        res.error))
        ELSE LET g == role_service_get_role_by_name("org_admin")
                 a == IF g.error # None
                      THEN [user_roles |-> user_roles, user_role |-> None, error |-> g.error]
                      ELSE InsertUserRole(res.organizations,
                                          [user_id |-> current_user_id, role_id |-> g.role.id,
                                           organization_id |-> res.organization.id])
             IN  /\ FreshId(OrgIdOrder, organizations) # None
                 /\ a.error = None => FreshUserRoleId # 0
                 /\ Request(roles, permissions, role_permissions, a.user_roles,
                            res.organizations,
                            IF a.error # None
                            THEN Resp("create_self_organization", current_user_id, 500,
                                      current_user_id, None, None, a.error)
                            ELSE Resp("create_self_organization", current_user_id, 201,
                                      current_user_id, None, res.organization.id, None))

\* The 400 raised for a failed insert is caught by the handler's own
\* "except Exception" and leaves as a 500.
organization_create_self_organization(current_user_id, org_data) ==
    LET res == OrganizationService_create_organization(org_data)
    IN  IF res.error # None
        THEN Reply(Resp("create_self_organization", current_user_id, 500, None, None, None,
                        res.error))
        ELSE LET g == role_service_get_role_by_name("org_admin")
                 a == IF g.error # None
                      THEN [user_roles |-> user_roles, user_role |-> None, error |-> g.error]
                      ELSE InsertUserRole(res.organizations,
                                          [user_id |-> current_user_id, role_id |-> g.role.id,
                                           organization_id |-> res.organization.id])
             IN  /\ FreshId(OrgIdOrder, organizations) # None
                 /\ a.error = None => FreshUserRoleId # 0
                 /\ Request(roles, permissions, role_permissions, a.user_roles,
                            res.organizations,
                            Resp("create_self_organization", current_user_id, 201,
                                 current_user_id, None, res.organization.id, None))

organization_delete_organization(current_user_id, org_id) ==
    IF ~PlatformAdminGate(current_user_id)
    THEN Reply(Resp("delete_organization", current_user_id, 403, None, None, org_id, None))
    ELSE LET res == OrganizationService_delete_organization(org_id)
         IN  Request(roles, permissions, role_permissions, res.user_roles, res.organizations,
                     Resp("delete_organization", current_user_id,
                          IF res.error = None THEN 204
                          ELSE IF ContainsNotFound(res.error) THEN 404 ELSE 500,
                          None, None, org_id, None))

----------------------------------------------------------------------------
(* RBACService: what a user holds *)

\* A boolean in a response body.
Bool(b) == IF b THEN "true" ELSE "false"

\* select roles(*) from user_roles where user_id = ... and organization_id
\* = ... (is null when no organization is given)
RBACService_get_roles_for_user(user_id, organization_id) ==
    {r \in roles :
        \E x \in user_roles :
            /\ x.user_id = user_id
            /\ x.organization_id = organization_id
            /\ x.role_id = r.id}

RBACService_get_user_roles_with_permissions(user_id, organization_id) ==
    { [role |-> r.id, permissions |-> {p.id : p \in RBACService_get_permissions_for_role(r.id)}] :
        r \in RBACService_get_roles_for_user(user_id, organization_id) }

\* The check with the roles of every scope counted.
RBACService_check_permission_any_scope(user_id, permission_name, organization_id) ==
    LET held == UNION {RBACService_get_roles_for_user(user_id, o) : o \in Scopes}
        g == RBACService_get_permission_by_name(permission_name)
    IN  IF g.error # None
        THEN [has |-> FALSE, error |-> g.error]
        ELSE [has |-> \E role \in held :
                          \E perm \in RBACService_get_permissions_for_role(role.id) :
                              perm.id = g.permission.id,
              error |-> None]

\* roles of the scope, then the permission by name, then for each role its
\* permissions
RBACService_check_permission(user_id, permission_name, organization_id) ==
    LET held == RBACService_get_roles_for_user(user_id, organization_id)
        g == RBACService_get_permission_by_name(permission_name)
    IN  IF g.error # None
        THEN [has |-> FALSE, error |-> g.error]
        ELSE [has |-> \E role \in held :
                          \E perm \in RBACService_get_permissions_for_role(role.id) :
                              perm.id = g.permission.id,
              error |-> None]

\* A call of check_permission, its (bool, error) pair as the response.
check_permission(user_id, permission_name, organization_id) ==
    LET c == RBACService_check_permission(user_id, permission_name, organization_id)
    IN  Reply(RespNamed("check_permission", None, 0, user_id, permission_name,
                        organization_id,
                        IF c.error # None THEN c.error ELSE Bool(c.has)))

\* rbac_service.user_has_permission / user_role_service.user_has_permission
user_has_permission(user_id, permission_name, organization_id) ==
    RBACService_check_permission(user_id, permission_name, organization_id)

user_role_service_get_roles_for_user(user_id, organization_id) ==
    RBACService_get_roles_for_user(user_id, organization_id)

user_role_service_get_user_roles_with_permissions(user_id, organization_id) ==
    RBACService_get_user_roles_with_permissions(user_id, organization_id)

----------------------------------------------------------------------------
(* auth/permissions.py: the guards, and the example routes that use them.  *)
(* A raising guard gives the status it raises, 0 when it lets the request  *)
(* through.                                                                *)

require_permission(user_id, permission_name, organization_id) ==
    LET c == user_has_permission(user_id, permission_name, organization_id)
    IN  IF c.error # None THEN 500 ELSE IF ~c.has THEN 403 ELSE 0

require_role(user_id, role_name, organization_id) ==
    LET c == user_has_role(user_id, role_name, organization_id)
    IN  IF c.error # None THEN 500 ELSE IF ~c.has THEN 403 ELSE 0

has_permission(user_id, permission_name, organization_id) ==
    LET c == user_has_permission(user_id, permission_name, organization_id)
    IN  IF c.error # None THEN FALSE ELSE c.has

has_role(user_id, role_name, organization_id) ==
    LET c == user_has_role(user_id, role_name, organization_id)
    IN  IF c.error # None THEN FALSE ELSE c.has

\* GET /example/admin-only
example_admin_only_endpoint(current_user_id) ==
    LET raised == require_role(current_user_id, "platform_admin", None)
    IN  Reply(Resp("admin_only_endpoint", current_user_id,
                   IF raised # 0 THEN raised ELSE 200, None, None, None, None))

\* GET /example/billing-access
example_billing_access_endpoint(current_user_id) ==
    LET raised == require_permission(current_user_id, "billing:read", None)
    IN  Reply(Resp("billing_access_endpoint", current_user_id,
                   IF raised # 0 THEN raised ELSE 200, None, None, None, None))

\* GET /example/conditional-content: always 200, with the features the
\* caller's permissions and roles unlock
example_conditional_content_endpoint(current_user_id) ==
    Reply(RespData("conditional_content_endpoint", current_user_id, 200, None, None, None, None,
                   (IF has_permission(current_user_id, "user:create", None)
                    THEN {"user_management"} ELSE {})
                   \cup (IF has_permission(current_user_id, "billing:read", None)
                         THEN {"billing_access"} ELSE {})
                   \cup (IF has_role(current_user_id, "platform_admin", None)
                         THEN {"admin_panel"} ELSE {})))

----------------------------------------------------------------------------
(* /rbac routes: reading what a user holds *)

RoleNameInputs == {"platform_admin", "org_admin", "auditor"}
PermissionNameInputs == {"user:read", "billing:read", "report:read"}

\* "Users can view their own roles, or admins can view any user's roles"
rbac_read_authorized(current_user_id, user_id, organization_id) ==
    LET c1 == user_has_role(current_user_id, "platform_admin", None)
        c2 == user_has_role(current_user_id, "org_admin", organization_id)
    IN  IF current_user_id # user_id
        THEN IF c1.has /\ c1.error = None THEN TRUE
             ELSE IF organization_id # None THEN c2.has /\ c2.error = None
             ELSE FALSE
        ELSE TRUE

rbac_get_roles_for_user(current_user_id, user_id, organization_id) ==
    IF ~rbac_read_authorized(current_user_id, user_id, organization_id)
    THEN Reply(Resp("get_roles_for_user", current_user_id, 403, user_id, None,
                    organization_id, None))
    ELSE Reply(RespData("get_roles_for_user", current_user_id, 200, user_id, None,
                        organization_id, None,
                        {r.id : r \in RBACService_get_roles_for_user(user_id, organization_id)}))

rbac_get_user_roles_with_permissions(current_user_id, user_id, organization_id) ==
    IF ~rbac_read_authorized(current_user_id, user_id, organization_id)
    THEN Reply(Resp("get_user_roles_with_permissions", current_user_id, 403, user_id, None,
                    organization_id, None))
    ELSE Reply(RespData("get_user_roles_with_permissions", current_user_id, 200, user_id,
                        None, organization_id, None,
                        {r.role : r \in RBACService_get_user_roles_with_permissions(
                                            user_id, organization_id)}))

rbac_check_user_permission(current_user_id, user_id, permission_name, organization_id) ==
    IF ~rbac_read_authorized(current_user_id, user_id, organization_id)
    THEN Reply(RespNamed("check_user_permission", current_user_id, 403, user_id,
                         permission_name, organization_id, None))
    ELSE LET c == user_has_permission(user_id, permission_name, organization_id)
         IN  Reply(RespNamed("check_user_permission", current_user_id,
                             IF c.error # None THEN 500 ELSE 200, user_id,
                             permission_name, organization_id,
                             IF c.error # None THEN c.error ELSE Bool(c.has)))

\* The route with the organization not passed on to the role check.
rbac_check_user_role_no_scope(current_user_id, user_id, role_name, organization_id) ==
    IF ~rbac_read_authorized(current_user_id, user_id, organization_id)
    THEN Reply(RespNamed("check_user_role", current_user_id, 403, user_id, role_name,
                         organization_id, None))
    ELSE LET c == user_has_role(user_id, role_name, None)
         IN  Reply(RespNamed("check_user_role", current_user_id,
                             IF c.error # None THEN 500 ELSE 200, user_id, role_name,
                             organization_id,
                             IF c.error # None THEN c.error ELSE Bool(c.has)))

rbac_check_user_role(current_user_id, user_id, role_name, organization_id) ==
    IF ~rbac_read_authorized(current_user_id, user_id, organization_id)
    THEN Reply(RespNamed("check_user_role", current_user_id, 403, user_id, role_name,
                         organization_id, None))
    ELSE LET c == user_has_role(user_id, role_name, organization_id)
         IN  Reply(RespNamed("check_user_role", current_user_id,
                             IF c.error # None THEN 500 ELSE 200, user_id, role_name,
                             organization_id,
                             IF c.error # None THEN c.error ELSE Bool(c.has)))

----------------------------------------------------------------------------
(* The decomposed routes that read what a user holds: no exception for the  *)
(* caller's own roles.                                                      *)

user_roles_read_authorized(current_user_id, organization_id) ==
    LET c1 == user_has_role(current_user_id, "platform_admin", None)
        c2 == user_has_role(current_user_id, "org_admin", organization_id)
    IN  IF organization_id # None
        THEN IF c1.has /\ c1.error = None THEN TRUE ELSE c2.has /\ c2.error = None
        ELSE c1.has /\ c1.error = None

user_roles_get_roles_for_user(current_user_id, user_id, organization_id) ==
    IF ~user_roles_read_authorized(current_user_id, organization_id)
    THEN Reply(Resp("user_roles.get_roles_for_user", current_user_id, 403, user_id, None,
                    organization_id, None))
    ELSE Reply(RespData("user_roles.get_roles_for_user", current_user_id, 200, user_id, None,
                        organization_id, None,
                        {r.id : r \in user_role_service_get_roles_for_user(
                                          user_id, organization_id)}))

user_roles_get_user_roles_with_permissions(current_user_id, user_id, organization_id) ==
    IF ~user_roles_read_authorized(current_user_id, organization_id)
    THEN Reply(Resp("user_roles.get_user_roles_with_permissions", current_user_id, 403,
                    user_id, None, organization_id, None))
    ELSE Reply(RespData("user_roles.get_user_roles_with_permissions", current_user_id, 200,
                        user_id, None, organization_id, None,
                        {r.role : r \in user_role_service_get_user_roles_with_permissions(
                                            user_id, organization_id)}))

----------------------------------------------------------------------------
(* Notification logs and stats.  get_authenticated_user gives the caller's  *)
(* id and a profile holding the caller's full role set; the profile's       *)
(* has_role(name) looks for the name in that set.                           *)

get_authenticated_user(current_user_id) ==
    [id |-> current_user_id,
     roles |-> { [name |-> r.name, organization_id |-> x.organization_id] :
                   <<x, r>> \in {xr \in user_roles \X roles :
                                   /\ xr[1].user_id = current_user_id
                                   /\ xr[1].role_id = xr[2].id} }]

profile_has_role(user_profile, name) ==
    \E user_role \in user_profile.roles : user_role.name = name

StatusFilterInputs == {None, "bogus"}
UserFilterInputs == Users \cup {None}

\* any(str(user_role.organization_id) == str(organization_id) for user_role in user_profile.roles)
has_org_access(user_profile, organization_id) ==
    \E user_role \in user_profile.roles : user_role.organization_id = organization_id

\* select * from organizations where id = ...
OrganizationService_get_organization_by_id(org_id) ==
    LET found == {o \in organizations : o.id = org_id}
    IN  IF found = {}
        THEN [organization |-> None, error |-> "Organization not found"]
        ELSE [organization |-> org_id, error |-> None]

\* GET /organizations/{org_id}: organization:read asked with no organization
\* first; then platform_admin, or org_admin of the organization, or
\* organization:read in the organization; then the row.
organization_get_organization(current_user_id, org_id) ==
    LET view == user_has_permission(current_user_id, "organization:read", None)
        platform == user_has_role(current_user_id, "platform_admin", None)
        admin == user_has_role(current_user_id, "org_admin", org_id)
        member == user_has_permission(current_user_id, "organization:read", org_id)
        res == OrganizationService_get_organization_by_id(org_id)
    IN  Reply(Resp("get_organization", current_user_id,
                   IF view.error # None \/ ~view.has THEN 403
                   ELSE IF ~platform.has /\ ~admin.has /\ (member.error # None \/ ~member.has)
                        THEN 403
                   ELSE IF res.error # None THEN 404
                   ELSE 200,
                   None, None, org_id,
                   IF view.error # None \/ ~view.has
                   THEN "Insufficient permissions to view organizations"
                   ELSE IF ~platform.has /\ ~admin.has /\ (member.error # None \/ ~member.has)
                        THEN "You don't have access to this organization"
                   ELSE res.error))

\* The administrator routes of notification events and templates, with the
\* status each answers when the request goes through.
NotificationAdminOps ==
    {"create_notification_event", "list_notification_events", "get_notification_event",
     "update_notification_event", "delete_notification_event",
     "create_notification_template", "list_notification_templates",
     "get_notification_template", "update_notification_template",
     "delete_notification_template"}

NotificationAdminSuccess(op) ==
    IF op \in {"create_notification_event", "create_notification_template"} THEN 201
    ELSE IF op \in {"delete_notification_event", "delete_notification_template"} THEN 204
    ELSE 200

\* The gate of an administrator route: if not user_profile.has_role(
\* "platform_admin"): 403.  What the notification service does for an
\* admitted request is outside the model.
notifications_admin(op, current_user_id) ==
    LET user_profile == get_authenticated_user(current_user_id)
    IN  Reply(Resp(op, current_user_id,
                   IF ~profile_has_role(user_profile, "platform_admin") THEN 403
                   ELSE NotificationAdminSuccess(op),
                   None, None, None,
                   IF ~profile_has_role(user_profile, "platform_admin") THEN None
                   ELSE "admitted"))

\* The handler assigns to a local named status, so every status.HTTP_... in
\* it reads that local (None, or a NotificationStatus) and raises
\* AttributeError, which leaves the handler as a 500.
notifications_get_notification_logs(current_user_id, organization_id, user_id, status_filter) ==
    LET user_profile == get_authenticated_user(current_user_id)
        code == IF status_filter = "bogus" THEN 500
                ELSE IF ~profile_has_role(user_profile, "platform_admin")
                THEN IF organization_id # None
                     THEN IF ~has_org_access(user_profile, organization_id) THEN 500 ELSE 200
                     ELSE IF user_id # None /\ user_id # current_user_id THEN 500
                     ELSE 200
                ELSE 200
    IN  Reply(Resp("get_notification_logs", current_user_id, code, user_id, None,
                   organization_id, IF code = 200 THEN "logs" ELSE None))

notifications_get_notification_stats(current_user_id, organization_id) ==
    LET user_profile == get_authenticated_user(current_user_id)
        code == IF ~profile_has_role(user_profile, "platform_admin")
                THEN IF organization_id # None
                     THEN IF ~has_org_access(user_profile, organization_id) THEN 403 ELSE 200
                     ELSE 400
                ELSE 200
    IN  Reply(Resp("get_notification_stats", current_user_id, code, None, None,
                   organization_id, IF code = 200 THEN "stats" ELSE None))

----------------------------------------------------------------------------
(* Email verification.  The token operations of the notification service:   *)
(* create replaces the user's token by a new one valid for ExpiryHours,     *)
(* validate gives the user id of a token that exists, is unexpired and is   *)
(* unused, use stamps used_at.                                              *)

ExpiryHours == 24

\* Tokens are opaque random strings: one is never generated twice.
TokenOrder == <<"t1", "t2", "t3">>
Tokens == {TokenOrder[i] : i \in 1..Len(TokenOrder)}

FreshToken ==
    LET free == {i \in 1..Len(TokenOrder) : TokenOrder[i] \notin issued}
    IN  IF free = {} THEN None
        ELSE TokenOrder[CHOOSE i \in free : \A j \in free : i <= j]

\* The email_verification_tokens table's constraints: UNIQUE (token) alone.
EmailVerificationTokensUniqueViolated_token_only(rows, row) ==
    \E x \in rows : x.token = row.token

\* The email_verification_tokens table's constraints (migration
\* d1e2f3g4h5i6): UNIQUE (token) and UNIQUE (user_id).
EmailVerificationTokensUniqueViolated(rows, row) ==
    \E x \in rows : x.token = row.token \/ x.user_id = row.user_id

\* The new row takes the place of the rows it conflicts with.
create_verification_token(user_id) ==
    LET row == [token |-> FreshToken, user_id |-> user_id,
                expires_at |-> now + ExpiryHours, used |-> FALSE]
    IN  [tokens |-> {x \in tokens : ~EmailVerificationTokensUniqueViolated({x}, row)}
                        \cup {row},
         token |-> row.token]

validate_verification_token(token) ==
    LET live == {x \in tokens : x.token = token /\ ~x.used /\ now < x.expires_at}
    IN  IF live = {} THEN None ELSE (CHOOSE x \in live : TRUE).user_id

use_verification_token(rows, token) ==
    {IF x.token = token THEN [x EXCEPT !.used = TRUE] ELSE x : x \in rows}

\* supabase_client.auth.admin.get_user_by_id: the response's user, as a set
\* that is empty when there is none
get_user_by_id(user_id) == {u \in auth_users : u.id = user_id}

\* user_response.user
TheUser(user_response) == CHOOSE u \in user_response : TRUE

\* One request of the verification routes: the new identity provider users
\* and token table, and the response.
VerifyRequest(newAuthUsers, newTokens, newIssued, r) ==
    /\ Idle
    /\ auth_users' = newAuthUsers
    /\ tokens' = newTokens
    /\ issued' = newIssued
    /\ resp' = r
    /\ UNCHANGED <<rbac_tables, now, muts, settings_vars, inflight>>

VerificationUserInputs == Users \cup {"nobody"}

notifications_send_verification_email(requested_user_id) ==
    LET user_response == get_user_by_id(requested_user_id)
        user == TheUser(user_response)
    IN  IF user_response = {}
        THEN Reply(Resp("send_verification_email", None, 404, requested_user_id, None, None,
                        None))
        ELSE IF user.email_confirmed
        THEN Reply(Resp("send_verification_email", None, 400, requested_user_id, None, None,
                        None))
        ELSE LET res == create_verification_token(requested_user_id)
             IN  /\ FreshToken # None
                 /\ VerifyRequest(auth_users, res.tokens, issued \cup {res.token},
                                  RespNamed("send_verification_email", None, 200,
                                            requested_user_id, res.token, None, None))

\* The route with the "if not user_id" rejection left out: the user of the
\* token's row is taken whether or not the token validates.
notifications_verify_email_unguarded(token) ==
    LET rows == {x \in tokens : x.token = token}
        user_id == IF rows = {} THEN None ELSE (CHOOSE x \in rows : TRUE).user_id
        user_response == get_user_by_id(user_id)
        user == TheUser(user_response)
    IN  IF user_response = {}
        THEN Reply(RespCalls("verify_email", None, 404, None, token, None,
                             {"get_user_by_id"}))
        ELSE IF user.email_confirmed
        THEN VerifyRequest(auth_users, use_verification_token(tokens, token), issued,
                           RespCalls("verify_email", None, 200, user_id, token,
                                     "already_verified", {"get_user_by_id"}))
        ELSE VerifyRequest((auth_users \ {user}) \cup {[user EXCEPT !.email_confirmed = TRUE]},
                           use_verification_token(tokens, token), issued,
                           RespCalls("verify_email", None, 200, user_id, token, "success",
                                     {"get_user_by_id", "update_user_by_id"}))

\* The route with the "already verified" branch left out: every validated
\* token of an existing user leads to the confirmation update.
notifications_verify_email_no_already_verified(token) ==
    LET user_id == validate_verification_token(token)
        user_response == get_user_by_id(user_id)
        user == TheUser(user_response)
    IN  IF user_id = None
        THEN Reply(RespCalls("verify_email", None, 400, None, token, None, {}))
        ELSE IF user_response = {}
        THEN Reply(RespCalls("verify_email", None, 404, None, token, None,
                             {"get_user_by_id"}))
        ELSE VerifyRequest((auth_users \ {user}) \cup {[user EXCEPT !.email_confirmed = TRUE]},
                           use_verification_token(tokens, token), issued,
                           RespCalls("verify_email", None, 200, user_id, token, "success",
                                     {"get_user_by_id", "update_user_by_id"}))

notifications_verify_email(token) ==
    LET user_id == validate_verification_token(token)
        user_response == get_user_by_id(user_id)
        user == TheUser(user_response)
    IN  IF user_id = None
        THEN Reply(RespCalls("verify_email", None, 400, None, token, None, {}))
        ELSE IF user_response = {}
        THEN Reply(RespCalls("verify_email", None, 404, None, token, None,
                             {"get_user_by_id"}))
        ELSE IF user.email_confirmed
        THEN VerifyRequest(auth_users, use_verification_token(tokens, token), issued,
                           RespCalls("verify_email", None, 200, user_id, token,
                                     "already_verified", {"get_user_by_id"}))
        ELSE VerifyRequest((auth_users \ {user}) \cup {[user EXCEPT !.email_confirmed = TRUE]},
                           use_verification_token(tokens, token), issued,
                           RespCalls("verify_email", None, 200, user_id, token, "success",
                                     {"get_user_by_id", "update_user_by_id"}))

\* The identity provider confirms a user's email on its own (its own
\* confirmation link, or its administrator): auth.users is the provider's
\* table, which the routes only read and update through the admin API.
identity_provider_confirms_email(user_id) ==
    LET user_response == get_user_by_id(user_id)
        user == TheUser(user_response)
    IN  /\ Idle
        /\ user_response # {}
        /\ ~user.email_confirmed
        /\ auth_users' = (auth_users \ {user}) \cup {[user EXCEPT !.email_confirmed = TRUE]}
        /\ UNCHANGED <<rbac_tables, tokens, issued, now, muts, resp, settings_vars, inflight>>

\* Twelve hours pass.
Tick ==
    /\ Idle
    /\ now + 12 <= MaxNow
    /\ now' = now + 12
    /\ UNCHANGED <<rbac_tables, auth_users, tokens, issued, muts, resp, settings_vars, inflight>>

----------------------------------------------------------------------------
(* Settings and the Supabase client (config/settings.py, config/supabase.py) *)

\* bool(v) of an Optional[str]
Truthy(v) == v # None /\ v # ""

SupabaseConfig_is_configured == Truthy(supabase_url) /\ Truthy(supabase_service_key)

\* The client property: the client is created on first use when both
\* settings are there; create_client may raise (create_raises), which the
\* property lets through.
SupabaseConfig_client(create_raises) ==
    IF client # None
    THEN [client |-> client, raised |-> FALSE, calls |-> {}]
    ELSE IF Truthy(supabase_url) /\ Truthy(supabase_service_key)
    THEN IF create_raises
         THEN [client |-> None, raised |-> TRUE, calls |-> {"create_client"}]
         ELSE [client |-> "client", raised |-> FALSE, calls |-> {"create_client"}]
    ELSE [client |-> None, raised |-> FALSE, calls |-> {}]

\* health_check: any exception gives False
SupabaseConfig_health_check(create_raises, get_session_raises) ==
    IF ~SupabaseConfig_is_configured
    THEN [healthy |-> FALSE, client |-> client, calls |-> {}]
    ELSE LET c == SupabaseConfig_client(create_raises)
         IN  IF c.raised \/ c.client = None
             THEN [healthy |-> FALSE, client |-> c.client, calls |-> c.calls]
             ELSE [healthy |-> ~get_session_raises, client |-> c.client,
                   calls |-> c.calls \cup {"get_session"}]

\* One request of the routes below: the new identity provider users, the
\* new organizations and user_roles tables, the client and the response.
AuthRequest(newAuthUsers, newOrganizations, newUserRoles, newClient, r) ==
    LET changed == <<newOrganizations, newUserRoles>> # <<organizations, user_roles>>
    IN  /\ Idle
        /\ changed => muts < MaxMuts
        /\ auth_users' = newAuthUsers
        /\ organizations' = newOrganizations
        /\ user_roles' = newUserRoles
        /\ client' = newClient
        /\ muts' = IF changed THEN muts + 1 ELSE muts
        /\ resp' = r
        /\ UNCHANGED <<roles, permissions, role_permissions, tokens, issued, now,
                       supabase_url, supabase_service_key, inflight>>

\* The health check that asks the client whatever the settings are.
main_health_check_unconditional(create_raises, get_session_raises) ==
    LET c == SupabaseConfig_client(create_raises)
        calls == c.calls \cup {"get_session"}
    IN  AuthRequest(auth_users, organizations, user_roles, c.client,
                    RespCalls("health_check", None, 200, None, None,
                              IF c.raised \/ c.client = None \/ get_session_raises
                              THEN "error" ELSE "ok",
                              calls))

\* GET /health
main_health_check(create_raises, get_session_raises) ==
    IF SupabaseConfig_is_configured
    THEN LET h == SupabaseConfig_health_check(create_raises, get_session_raises)
         IN  AuthRequest(auth_users, organizations, user_roles, h.client,
                         RespCalls("health_check", None, 200, None, None,
                                   IF h.healthy THEN "ok" ELSE "error", h.calls))
    ELSE AuthRequest(auth_users, organizations, user_roles, client,
                     RespCalls("health_check", None, 200, None, None, "not_configured", {}))

----------------------------------------------------------------------------
(* Sign-up (auth/models.py, auth/service.py, auth/routes.py) *)

\* The service's "no error".
NoError == [error |-> None, message |-> None]

UppercaseLetters == {"A", "B", "C", "D", "E", "F"}
LowercaseLetters == {"a", "b", "c", "d", "e", "f", "g"}
Digits == {"0", "1", "2"}
\* the characters of the pattern [!@#$%^&*(),.?":{}|<>]
SpecialCharacters ==
    {"!", "@", "#", "$", "%", "^", "&", "*", "(", ")", ",", ".", "?", "\"", ":",
     "{", "}", "|", "<", ">"}

RECURSIVE Repeat(_, _)
Repeat(chars, n) == IF n = 0 THEN <<>> ELSE chars \o Repeat(chars, n - 1)

\* The passwords of the requests, by their text; "Ab1!*32" is Ab1! thirty-two
\* times over (128 characters), "Ab1!*32a" that and one more character.
PasswordInputs ==
    {"Abcdef1!", "Bcdefa2@", "Abcde1!", "abcdef1!", "ABCDEF1!", "Abcdefg!", "Abcdefg1", "Abcdef1_",
     "Ab1!*32", "Ab1!*32a"}

PasswordChars(p) ==
      CASE p = "Abcdef1!" -> <<"A", "b", "c", "d", "e", "f", "1", "!">>
        [] p = "Bcdefa2@" -> <<"B", "c", "d", "e", "f", "a", "2", "@">>
        [] p = "Abcde1!" -> <<"A", "b", "c", "d", "e", "1", "!">>
        [] p = "abcdef1!" -> <<"a", "b", "c", "d", "e", "f", "1", "!">>
        [] p = "ABCDEF1!" -> <<"A", "B", "C", "D", "E", "F", "1", "!">>
        [] p = "Abcdefg!" -> <<"A", "b", "c", "d", "e", "f", "g", "!">>
        [] p = "Abcdefg1" -> <<"A", "b", "c", "d", "e", "f", "g", "1">>
        [] p = "Abcdef1_" -> <<"A", "b", "c", "d", "e", "f", "1", "_">>
        [] p = "Ab1!*32" -> Repeat(<<"A", "b", "1", "!">>, 32)
        [] p = "Ab1!*32a" -> Repeat(<<"A", "b", "1", "!">>, 32) \o <<"a">>

\* re.search(r'[...]', v)
Search(class, v) == \E i \in 1..Len(v) : v[i] \in class

\* The validator with the special-character check left out.
SignUpRequest_validate_no_special(request) ==
    LET v == PasswordChars(request.password)
    IN  IF Len(v) < 8 THEN "string_too_short"
        ELSE IF Len(v) > 128 THEN "string_too_long"
        ELSE IF ~Search(UppercaseLetters, v) THEN "value_error"
        ELSE IF ~Search(LowercaseLetters, v) THEN "value_error"
        ELSE IF ~Search(Digits, v) THEN "value_error"
        ELSE IF PasswordChars(request.password) # PasswordChars(request.password_confirm)
        THEN "value_error"
        ELSE None

\* SignUpRequest: the field's min_length and max_length, validate_password,
\* then model_post_init; None when the request validates
SignUpRequest_validate(request) ==
    LET v == PasswordChars(request.password)
    IN  IF Len(v) < 8 THEN "string_too_short"
        ELSE IF Len(v) > 128 THEN "string_too_long"
        ELSE IF ~Search(UppercaseLetters, v) THEN "value_error"
        ELSE IF ~Search(LowercaseLetters, v) THEN "value_error"
        ELSE IF ~Search(Digits, v) THEN "value_error"
        ELSE IF ~Search(SpecialCharacters, v) THEN "value_error"
        ELSE IF PasswordChars(request.password) # PasswordChars(request.password_confirm)
        THEN "value_error"
        ELSE None

\* The emails of the requests: alice is registered, the third is 90
\* characters long.
SignUpEmails == {"alice", "carol", "d-long"}

EmailLength(email) == IF email = "d-long" THEN 90 ELSE 17

\* The confirmation repeats the password or is another valid password.
SignUpRequestInputs ==
    UNION { { [email |-> e, password |-> p, password_confirm |-> c] : c \in {p, "Abcdef1!"} } :
              e \in SignUpEmails, p \in PasswordInputs }

\* f"{user.email}'s Organization"
PersonalOrganizationName(email) ==
    CASE email = "alice" -> "alice's Organization"
      [] email = "carol" -> "carol's Organization"
      [] email = "d-long" -> "d-long's Organization"

\* f"{user.id[:8]}-dummy-org"
PersonalOrganizationSlug(user_id) ==
    CASE user_id = "alice" -> "alice-dummy-org"
      [] user_id = "carol" -> "carol-dummy-org"
      [] user_id = "d-long" -> "d-long-dummy-org"

\* OrganizationCreate(name=f"{user.email}'s Organization", ...): the name is
\* the email and 15 more characters, and has max_length=100
OrganizationCreate_validates(email) == EmailLength(email) + 15 <= 100

\* insert into user_roles, the provider's users being users and the
\* organizations table orgs
InsertUserRoleWith(users, orgs, user_role_data) ==
    LET row == [id |-> FreshUserRoleId, user_id |-> user_role_data.user_id,
                role_id |-> user_role_data.role_id,
                organization_id |-> user_role_data.organization_id]
    IN  IF \/ ~ \E u \in users : u.id = row.user_id
           \/ ~ \E r \in roles : r.id = row.role_id
           \/ row.organization_id # None /\ ~ \E o \in orgs : o.id = row.organization_id
        THEN [user_roles |-> user_roles, user_role |-> None, error |-> ForeignKeyViolation]
        ELSE IF UserRolesUniqueViolated(user_roles, row)
        THEN [user_roles |-> user_roles, user_role |-> None, error |-> UniqueViolation]
        ELSE [user_roles |-> user_roles \cup {row}, user_role |-> row, error |-> None]

\* The block granting org_admin platform-wide, without an organization.
AuthService_sign_up_provisioning_platform_wide(users, user) ==
    LET g == RBACService_get_role_by_name("org_admin")
        a == InsertUserRoleWith(users, organizations,
                                [user_id |-> user.id, role_id |-> g.role.id,
                                 organization_id |-> None])
    IN  IF g.error # None
        THEN [organizations |-> organizations, user_roles |-> user_roles,
              outcome |-> "no_role"]
        ELSE [organizations |-> organizations, user_roles |-> a.user_roles,
              outcome |-> "assigned"]

\* sign_up's "Assign default org_admin role to new user" block: each failure
\* is logged and the block left (a service gives no result exactly when it
\* gives an error)
AuthService_sign_up_provisioning(users, user) ==
    LET g == RBACService_get_role_by_name("org_admin")
        o == OrganizationService_create_organization(
                 [name |-> PersonalOrganizationName(user.id),
                  slug |-> PersonalOrganizationSlug(user.id)])
        a == InsertUserRoleWith(users, o.organizations,
                                [user_id |-> user.id, role_id |-> g.role.id,
                                 organization_id |-> o.organization.id])
        left(outcome) == [organizations |-> organizations, user_roles |-> user_roles,
                          outcome |-> outcome]
    IN  IF g.error # None THEN left("no_role")
        ELSE IF ~OrganizationCreate_validates(user.id) THEN left("raised")
        ELSE IF o.error # None THEN left("no_organization")
        ELSE IF a.error # None
        THEN [organizations |-> o.organizations, user_roles |-> user_roles,
              outcome |-> "not_assigned"]
        ELSE [organizations |-> o.organizations, user_roles |-> a.user_roles,
              outcome |-> "assigned"]

\* sign_up with the provisioning block's failures passed on to the caller.
AuthService_sign_up_provisioning_fatal(request, create_raises) ==
    LET c == SupabaseConfig_client(create_raises)
        failed(kind, message, cl, calls) ==
            [auth_users |-> auth_users, organizations |-> organizations,
             user_roles |-> user_roles, client |-> cl, auth_response |-> None,
             error |-> [error |-> kind, message |-> message], calls |-> calls,
             outcome |-> None]
        user == [id |-> request.email, email_confirmed |-> FALSE]
        users == auth_users \cup {user}
        prov == AuthService_sign_up_provisioning(users, user)
    IN  IF ~SupabaseConfig_is_configured
        THEN failed("internal_error", "Internal server error during sign up", client, {})
        ELSE IF c.raised
        THEN failed("internal_error", "Internal server error during sign up", c.client, c.calls)
        ELSE IF \E u \in auth_users : u.id = request.email
        THEN failed("auth_error", "User already registered", c.client,
                    c.calls \cup {"sign_up"})
        ELSE IF prov.outcome # "assigned"
        THEN [auth_users |-> users, organizations |-> prov.organizations,
              user_roles |-> prov.user_roles, client |-> c.client,
              auth_response |-> None,
              error |-> [error |-> "internal_error",
                         message |-> "Internal server error during sign up"],
              calls |-> c.calls \cup {"sign_up"}, outcome |-> prov.outcome]
        ELSE [auth_users |-> users, organizations |-> prov.organizations,
              user_roles |-> prov.user_roles, client |-> c.client,
              auth_response |-> "auth_response", error |-> NoError,
              calls |-> c.calls \cup {"sign_up"}, outcome |-> prov.outcome]

\* AuthService.sign_up: the provider's sign_up, the auth response, then the
\* provisioning block, whose outcome does not reach the result
AuthService_sign_up(request, create_raises) ==
    LET c == SupabaseConfig_client(create_raises)
        failed(kind, message, cl, calls) ==
            [auth_users |-> auth_users, organizations |-> organizations,
             user_roles |-> user_roles, client |-> cl, auth_response |-> None,
             error |-> [error |-> kind, message |-> message], calls |-> calls,
             outcome |-> None]
        user == [id |-> request.email, email_confirmed |-> FALSE]
        users == auth_users \cup {user}
        prov == AuthService_sign_up_provisioning(users, user)
    IN  IF ~SupabaseConfig_is_configured
        THEN failed("internal_error", "Internal server error during sign up", client, {})
        ELSE IF c.raised
        THEN failed("internal_error", "Internal server error during sign up", c.client, c.calls)
        ELSE IF \E u \in auth_users : u.id = request.email
        THEN failed("auth_error", "User already registered", c.client,
                    c.calls \cup {"sign_up"})
        ELSE [auth_users |-> users, organizations |-> prov.organizations,
              user_roles |-> prov.user_roles, client |-> c.client,
              auth_response |-> "auth_response", error |-> NoError,
              calls |-> c.calls \cup {"sign_up"}, outcome |-> prov.outcome]

\* The response of POST /auth/signup: the request's email, password and
\* password_confirm, the status, the body and the calls made.
RespSignUp(status, request, body, calls) ==
    [op |-> "sign_up", caller |-> None, status |-> status, user |-> request.email,
     role |-> request.password_confirm, name |-> request.password, org |-> None,
     body |-> body, data |-> calls]

\* the route's status for an error of the service
sign_up_error_status(error) ==
    IF error.error = "auth_error" /\ error.message = "User already registered" THEN 409
    ELSE IF error.error = "internal_error" THEN 500
    ELSE 400

\* POST /auth/signup: the body is validated as a SignUpRequest before the
\* handler runs (422), and the handler calls the service
auth_sign_up(request, create_raises) ==
    IF SignUpRequest_validate(request) # None
    THEN AuthRequest(auth_users, organizations, user_roles, client,
                     RespSignUp(422, request, "validation", {}))
    ELSE LET res == AuthService_sign_up(request, create_raises)
         IN  /\ res.outcome \in {"assigned", "not_assigned"}
                  => FreshId(OrgIdOrder, organizations) # None
             /\ res.outcome = "assigned" => FreshUserRoleId # 0
             /\ AuthRequest(res.auth_users, res.organizations, res.user_roles, res.client,
                            IF res.error.error # None
                            THEN RespSignUp(sign_up_error_status(res.error), request,
                                            res.error.message, res.calls)
                            ELSE RespSignUp(201, request, res.auth_response, res.calls))

----------------------------------------------------------------------------
(* GET /auth/me (auth/routes.py, auth/service.py) *)

\* The Authorization headers of the requests, by their text; "(none)" is a
\* request without the header.
AuthorizationInputs ==
    {"(none)", "", "Basic dXNlcg", "bearer tok-alice", "Bearertok-alice", "Bearer tok-alice", "Bearer tok-old"}

\* The header's characters; <<>> for the empty header and for no header
\* (Header(None)), which "not authorization" does not tell apart.
AuthorizationChars(h) ==
      CASE h = "" -> <<>>
        [] h = "Basic dXNlcg" -> <<"B", "a", "s", "i", "c", " ", "d", "X", "N", "l", "c", "g">>
        [] h = "bearer tok-alice" -> <<"b", "e", "a", "r", "e", "r", " ", "t", "o", "k", "-", "a", "l", "i", "c", "e">>
        [] h = "Bearertok-alice" -> <<"B", "e", "a", "r", "e", "r", "t", "o", "k", "-", "a", "l", "i", "c", "e">>
        [] h = "Bearer tok-alice" -> <<"B", "e", "a", "r", "e", "r", " ", "t", "o", "k", "-", "a", "l", "i", "c", "e">>
        [] h = "Bearer tok-old" -> <<"B", "e", "a", "r", "e", "r", " ", "t", "o", "k", "-", "o", "l", "d">>
        [] h = "(none)" -> <<>>

\* authorization.startswith(prefix)
StartsWith(chars, prefix) ==
    Len(chars) >= Len(prefix) /\ SubSeq(chars, 1, Len(prefix)) = prefix

BearerPrefix == <<"B", "e", "a", "r", "e", "r", " ">>

\* authorization.replace("Bearer ", ""): every occurrence goes
RECURSIVE Replace(_, _)
Replace(chars, old) ==
    IF chars = <<>> THEN <<>>
    ELSE IF StartsWith(chars, old)
    THEN Replace(SubSeq(chars, Len(old) + 1, Len(chars)), old)
    ELSE <<Head(chars)>> \o Replace(Tail(chars), old)

\* The provider's user for an access token: tok-alice is alice's session.
AccessTokenUser(access_token) ==
    IF access_token = <<"t", "o", "k", "-", "a", "l", "i", "c", "e">> THEN "alice" ELSE None

\* AuthService.get_user: set_session and get_user at the provider
AuthService_get_user(access_token, create_raises) ==
    LET c == SupabaseConfig_client(create_raises)
        calls == c.calls \cup {"set_session", "get_user"}
    IN  IF ~SupabaseConfig_is_configured
        THEN [user_profile |-> None, client |-> client, calls |-> {},
              error |-> [error |-> "internal_error",
                         message |-> "Internal server error while fetching user profile"]]
        ELSE IF c.raised
        THEN [user_profile |-> None, client |-> c.client, calls |-> c.calls,
              error |-> [error |-> "internal_error",
                         message |-> "Internal server error while fetching user profile"]]
        ELSE IF AccessTokenUser(access_token) = None
        THEN [user_profile |-> None, client |-> c.client, calls |-> calls,
              error |-> [error |-> "auth_error", message |-> "Invalid or expired token"]]
        ELSE [user_profile |-> AccessTokenUser(access_token), client |-> c.client,
              calls |-> calls, error |-> NoError]

\* The route without its check of the header.
auth_get_current_user_unchecked(authorization, create_raises) ==
    LET access_token == Replace(AuthorizationChars(authorization), BearerPrefix)
        res == AuthService_get_user(access_token, create_raises)
    IN  AuthRequest(auth_users, organizations, user_roles, res.client,
                    IF res.error.error # None
                    THEN RespCalls("get_current_user", None,
                                   IF res.error.error = "internal_error" THEN 500 ELSE 401,
                                   None, authorization, res.error.message, res.calls)
                    ELSE RespCalls("get_current_user", None, 200, res.user_profile,
                                   authorization, "user_profile", res.calls))

\* GET /auth/me; the service operation the route names is get_user
auth_get_current_user(authorization, create_raises) ==
    IF AuthorizationChars(authorization) = <<>>
         \/ ~StartsWith(AuthorizationChars(authorization), BearerPrefix)
    THEN AuthRequest(auth_users, organizations, user_roles, client,
                     RespCalls("get_current_user", None, 401, None, authorization,
                               "Missing or invalid authorization header", {}))
    ELSE LET access_token == Replace(AuthorizationChars(authorization), BearerPrefix)
             res == AuthService_get_user(access_token, create_raises)
         IN  AuthRequest(auth_users, organizations, user_roles, res.client,
                         IF res.error.error # None
                         THEN RespCalls("get_current_user", None,
                                        IF res.error.error = "internal_error" THEN 500
                                        ELSE 401,
                                        None, authorization, res.error.message, res.calls)
                         ELSE RespCalls("get_current_user", None, 200, res.user_profile,
                                        authorization, "user_profile", res.calls))

----------------------------------------------------------------------------
\* The routes that write roles, permissions and role_permissions, and the
\* assignment of roles to users.
Next ==
    \/ Receive
    \/ Idle /\ \E u \in Users, d \in RoleCreateInputs : rbac_create_role(u, d)
    \/ Idle /\ \E u \in Users, r \in RoleIds, d \in RoleUpdateInputs : rbac_update_role(u, r, d)
    \/ Idle /\ \E u \in Users, r \in RoleIds : rbac_delete_role(u, r)
    \/ Idle /\ \E u \in Users, d \in PermissionCreateInputs : rbac_create_permission(u, d)
    \/ Idle /\ \E u \in Users, p \in PermIds, d \in PermissionUpdateInputs : rbac_update_permission(u, p, d)
    \/ Idle /\ \E u \in Users, p \in PermIds : rbac_delete_permission(u, p)
    \/ Idle /\ \E u \in Users, r \in RoleIds, p \in PermIds : rbac_assign_permission_to_role(u, r, p)
    \/ Idle /\ \E u \in Users, r \in RoleIds, p \in PermIds : rbac_remove_permission_from_role(u, r, p)
    \/ Idle /\ \E u \in Users, d \in UserRoleCreateInputs : rbac_assign_role_to_user(u, d)
    \/ Idle /\ \E u \in Users : example_admin_only_endpoint(u)
    \/ Idle /\ \E u \in Users : example_billing_access_endpoint(u)
    \/ Idle /\ \E u \in Users : example_conditional_content_endpoint(u)

Spec == Init /\ [][Next]_vars

\* The routes that write user_roles.
NextUserRoles ==
    \/ Receive
    \/ Idle /\ \E u \in Users, d \in UserRoleCreateInputs : rbac_assign_role_to_user(u, d)
    \/ Idle /\ \E u \in Users, i \in UserRoleIds, d \in UserRoleUpdateInputs :
                  rbac_update_user_role(u, i, d)
    \/ Idle /\ \E u \in Users, i \in UserRoleIds : rbac_remove_role_from_user(u, i)
    \/ Idle /\ \E u \in Users, d \in UserRoleCreateInputs : user_roles_assign_role_to_user(u, d)
    \/ Idle /\ \E u \in Users, i \in UserRoleIds, d \in UserRoleUpdateInputs :
                  user_roles_update_user_role(u, i, d)
    \/ Idle /\ \E u \in Users, i \in UserRoleIds : user_roles_remove_role_from_user(u, i)
    \/ Idle /\ \E u \in Users, r \in RoleIds : rbac_delete_role(u, r)
    \/ Idle /\ \E u \in Users, d \in OrganizationCreateInputs : organization_create_organization(u, d)
    \/ Idle /\ \E u \in Users, d \in OrganizationCreateInputs :
                  organization_create_self_organization(u, d)
    \/ Idle /\ \E u \in Users, o \in OrgIds : organization_delete_organization(u, o)

SpecUserRoles == Init /\ [][NextUserRoles]_vars

\* The routes that read what users hold, over tables that assignments and
\* role-permission links change.
NextQuery ==
    \/ Receive
    \/ Idle /\ \E u \in Users, v \in Users, o \in Scopes : rbac_get_roles_for_user(u, v, o)
    \/ Idle /\ \E u \in Users, v \in Users, o \in Scopes :
                  rbac_get_user_roles_with_permissions(u, v, o)
    \/ Idle /\ \E u \in Users, v \in Users, n \in PermissionNameInputs, o \in Scopes :
                  rbac_check_user_permission(u, v, n, o)
    \/ Idle /\ \E u \in Users, v \in Users, n \in RoleNameInputs, o \in Scopes :
                  rbac_check_user_role(u, v, n, o)
    \/ Idle /\ \E v \in Users, n \in PermissionNameInputs, o \in Scopes : check_permission(v, n, o)
    \/ Idle /\ \E u \in Users, v \in Users, o \in Scopes : user_roles_get_roles_for_user(u, v, o)
    \/ Idle /\ \E u \in Users, v \in Users, o \in Scopes :
                  user_roles_get_user_roles_with_permissions(u, v, o)
    \/ Idle /\ \E u \in Users, o \in Scopes, v \in UserFilterInputs, f \in StatusFilterInputs :
                  notifications_get_notification_logs(u, o, v, f)
    \/ Idle /\ \E u \in Users, o \in Scopes : notifications_get_notification_stats(u, o)
    \/ Idle /\ \E op \in NotificationAdminOps, u \in Users : notifications_admin(op, u)
    \/ Idle /\ \E u \in Users, o \in OrgIds : organization_get_organization(u, o)
    \/ Idle /\ \E u \in Users, d \in UserRoleCreateInputs : rbac_assign_role_to_user(u, d)
    \/ Idle /\ \E u \in Users, r \in RoleIds, p \in PermIds : rbac_assign_permission_to_role(u, r, p)
    \/ Idle /\ \E u \in Users, r \in RoleIds, p \in PermIds : rbac_remove_permission_from_role(u, r, p)

SpecQuery == Init /\ [][NextQuery]_vars

\* The email-verification routes and the clock.
NextVerify ==
    \/ Receive
    \/ Idle /\ \E u \in VerificationUserInputs : notifications_send_verification_email(u)
    \/ Idle /\ \E t \in Tokens : notifications_verify_email(t)
    \/ \E u \in Users : identity_provider_confirms_email(u)
    \/ Tick

SpecVerify == Init /\ [][NextVerify]_vars

\* Sign-up, the profile route and the health check under any settings;
\* once the client exists, also the creation of organizations by their
\* users and the deletion of roles.  A caller is whoever the bearer token
\* names (its signature is not verified): ghost is no user of the provider.
SelfOrganizationInputs ==
    { [name |-> "carol's Organization", slug |-> "carols"],
      [name |-> "umbrella", slug |-> "carol-dummy-org"] }

NextAuth ==
    \/ Receive
    \/ Idle /\ \E d \in SignUpRequestInputs, c \in BOOLEAN : auth_sign_up(d, c)
    \/ Idle /\ \E h \in AuthorizationInputs, c \in BOOLEAN : auth_get_current_user(h, c)
    \/ Idle /\ \E c \in BOOLEAN, g \in BOOLEAN : main_health_check(c, g)
    \/ Idle /\ client # None /\ \E u \in Users \cup {"ghost"}, d \in SelfOrganizationInputs :
                  organization_create_self_organization(u, d)
    \/ Idle /\ client # None /\ \E u \in Users, r \in RoleIds : rbac_delete_role(u, r)

SpecAuth == InitAnySettings /\ [][NextAuth]_vars

----------------------------------------------------------------------------
(* POST /rbac/user-roles handled by several workers at once.  The handler   *)
(* awaits the authorization reads and then the insert; each is a call to    *)
(* the database, which runs them one at a time, in any order across the     *)
(* requests.                                                                *)

MaxRequests == 2      \* assign-role requests in one behaviour
RequestIds == 1..MaxRequests

\* The requests in the race: some caller assigns bob a role platform-wide or
\* in acme.
RaceInputs ==
    { [user_id |-> "bob", role_id |-> r, organization_id |-> o] :
        r \in {"r_regular_user", "r_org_admin"}, o \in {None, "o1"} }

\* The authorization reads of a request; a refused one is answered 403.
rbac_assign_role_to_user_begin(id, current_user_id, user_role_data) ==
    LET ok == rbac_assign_role_to_user_authorized(current_user_id, user_role_data)
    IN  /\ ~ \E q \in inflight : q.id = id
        /\ inflight' = inflight \cup
               { [id |-> id, caller |-> current_user_id, data |-> user_role_data,
                  pc |-> IF ok THEN "insert" ELSE "done",
                  status |-> IF ok THEN 0 ELSE 403] }
        /\ UNCHANGED <<rbac_tables, verify_tables, muts, resp, settings_vars>>

\* The insert of an authorized request and its answer.
rbac_assign_role_to_user_insert(q) ==
    LET res == RBACService_assign_role_to_user(q.data)
    IN  /\ q.pc = "insert"
        /\ res.error = None => FreshUserRoleId # 0 /\ muts < MaxMuts
        /\ user_roles' = res.user_roles
        /\ muts' = IF res.error = None THEN muts + 1 ELSE muts
        /\ inflight' = (inflight \ {q}) \cup
               { [q EXCEPT !.pc = "done",
                           !.status = IF res.error = None THEN 201
                                      ELSE IF ContainsNotFound(res.error) THEN 404
                                      ELSE 400] }
        /\ UNCHANGED <<roles, permissions, role_permissions, organizations,
                       verify_tables, resp, settings_vars>>

NextRace ==
    \/ \E id \in RequestIds, u \in Users, d \in RaceInputs :
          rbac_assign_role_to_user_begin(id, u, d)
    \/ \E q \in inflight : rbac_assign_role_to_user_insert(q)

SpecRace == Init /\ [][NextRace]_vars

----------------------------------------------------------------------------
(* DELETE /rbac/roles/{id} and DELETE /rbac/permissions/{id}, one database *)
(* call at a time.  The service makes its deletes one after the other, with *)
(* no transaction around them; any of them may raise, which the service     *)
(* returns as the error string and the route answers with 500.  The server  *)
(* handles one request at a time here.                                      *)

\* The tables delete_role deletes from, in the order of its calls.
delete_role_calls_parent_first == <<"roles", "role_permissions", "user_roles">>

delete_role_calls == <<"role_permissions", "user_roles", "roles">>

\* The tables delete_permission deletes from, in the order of its calls.
delete_permission_calls == <<"role_permissions", "permissions">>

DeleteCalls(op) == IF op = "delete_role" THEN delete_role_calls ELSE delete_permission_calls

\* str(e) of an exception of the database client
DatabaseError == "connection lost"

DeleteTargets(op) == IF op = "delete_role" THEN RoleIds ELSE PermIds

\* The response of a delete route for the service's error (None: success).
DeleteResp(q, error) ==
    Resp(q.op, q.caller,
         IF error = None THEN 204 ELSE IF ContainsNotFound(error) THEN 404 ELSE 500,
         None, IF q.op = "delete_role" THEN q.target ELSE None, None,
         IF q.op = "delete_role" THEN error ELSE q.target)

\* The gate of the route; an authorized request goes on to its deletes.  The
\* request in progress carries the two join tables as it found them.
rbac_delete_begin(op, current_user_id, target) ==
    /\ Idle
    /\ inflight = {}
    /\ IF ~PlatformAdminGate(current_user_id)
       THEN /\ resp' = Resp(op, current_user_id, 403, None,
                            IF op = "delete_role" THEN target ELSE None, None,
                            IF op = "delete_role" THEN None ELSE target)
            /\ UNCHANGED <<inflight, muts>>
       ELSE /\ muts < MaxMuts
            /\ muts' = muts + 1
            /\ inflight' = {[op |-> op, caller |-> current_user_id, target |-> target, pc |-> 1,
                              role_permissions0 |-> role_permissions,
                              user_roles0 |-> user_roles]}
            /\ UNCHANGED resp
    /\ UNCHANGED <<rbac_tables, verify_tables, settings_vars>>

\* delete from table where the column of the request's target equals it; the
\* foreign keys of role_permissions and user_roles are ON DELETE CASCADE
DeleteFrom(table, q) ==
    LET rp == IF q.op = "delete_role"
              THEN {x \in role_permissions : x.role_id # q.target}
              ELSE {x \in role_permissions : x.permission_id # q.target}
        ur == {x \in user_roles : x.role_id # q.target}
    IN  /\ role_permissions' = IF table \in {"role_permissions", "roles", "permissions"}
                               THEN rp ELSE role_permissions
        /\ user_roles' = IF table \in {"user_roles", "roles"} THEN ur ELSE user_roles
        /\ roles' = IF table = "roles" THEN {r \in roles : r.id # q.target} ELSE roles
        /\ permissions' = IF table = "permissions"
                          THEN {x \in permissions : x.id # q.target} ELSE permissions
        /\ UNCHANGED organizations

\* The rows the last call of the request deletes: response.data
DeleteData(q) ==
    IF q.op = "delete_role" THEN {r \in roles : r.id = q.target}
    ELSE {x \in permissions : x.id = q.target}

\* The next call of the request in progress.
rbac_delete_call(q, raises) ==
    LET calls == DeleteCalls(q.op)
    IN  /\ q \in inflight
        /\ IF raises
           THEN /\ UNCHANGED rbac_tables
                /\ inflight' = {}
                /\ resp' = DeleteResp(q, DatabaseError)
           ELSE /\ DeleteFrom(calls[q.pc], q)
                /\ IF q.pc < Len(calls)
                   THEN /\ inflight' = {[q EXCEPT !.pc = q.pc + 1]}
                        /\ UNCHANGED resp
                   ELSE /\ inflight' = {}
                        /\ resp' = DeleteResp(q, IF DeleteData(q) = {}
                                                 THEN IF q.op = "delete_role"
                                                      THEN "Role not found"
                                                      ELSE "Permission not found"
                                                 ELSE None)
        /\ UNCHANGED <<verify_tables, muts, settings_vars>>

\* The deletes call by call, among the requests that create roles,
\* permissions and organizations, link them and delete organizations.
\* The callers of these requests: root is platform_admin, alice is not.
DeleteCallers == {"root", "alice"}

\* The assignments among them: alice or bob gets a role platform-wide or in
\* globex.
DeleteAssignInputs ==
    { [user_id |-> u, role_id |-> r, organization_id |-> o] :
        u \in {"alice", "bob"}, r \in {"r_regular_user", "r_new"}, o \in {None, "o2"} }

NextDelete ==
    \/ Receive
    \/ \E op \in {"delete_role", "delete_permission"} :
          \E u \in DeleteCallers, t \in DeleteTargets(op) : rbac_delete_begin(op, u, t)
    \/ \E q \in inflight, raises \in BOOLEAN : rbac_delete_call(q, raises)
    \/ inflight = {} /\ \E u \in DeleteCallers, d \in RoleCreateInputs : rbac_create_role(u, d)
    \/ inflight = {} /\ \E u \in DeleteCallers, d \in PermissionCreateInputs : rbac_create_permission(u, d)
    \/ inflight = {} /\ \E u \in DeleteCallers, r \in RoleIds, p \in PermIds :
                           rbac_assign_permission_to_role(u, r, p)
    \/ inflight = {} /\ \E u \in DeleteCallers, d \in DeleteAssignInputs : rbac_assign_role_to_user(u, d)
    \/ inflight = {} /\ \E u \in DeleteCallers, d \in OrganizationCreateInputs :
                           organization_create_organization(u, d)
    \/ inflight = {} /\ \E u \in DeleteCallers, o \in OrgIds : organization_delete_organization(u, o)

SpecDelete == Init /\ [][NextDelete]_vars

----------------------------------------------------------------------------
(* POST /rbac/roles and DELETE /rbac/user-roles/{id} handled by several     *)
(* workers at once: each handler awaits its role check and then its write,  *)
(* two calls to the database with nothing holding them together.            *)

\* The role check of create_role; a refused request is answered 403.
rbac_create_role_begin(id, current_user_id, role_data) ==
    LET ok == PlatformAdminGate(current_user_id)
    IN  /\ ~ \E q \in inflight : q.id = id
        /\ inflight' = inflight \cup
               { [id |-> id, op |-> "create_role", caller |-> current_user_id,
                  role_data |-> role_data, user_role_id |-> 0,
                  pc |-> IF ok THEN "write" ELSE "done",
                  status |-> IF ok THEN 0 ELSE 403] }
        /\ UNCHANGED <<rbac_tables, verify_tables, muts, resp, settings_vars>>

\* The insert of create_role and its answer.
rbac_create_role_insert(q) ==
    LET res == RBACService_create_role(q.role_data)
    IN  /\ q.op = "create_role"
        /\ q.pc = "write"
        /\ res.error = None => FreshId(RoleIdOrder, roles) # None /\ muts < MaxMuts
        /\ roles' = res.roles
        /\ muts' = IF res.error = None THEN muts + 1 ELSE muts
        /\ inflight' = (inflight \ {q}) \cup
               { [q EXCEPT !.pc = "done", !.status = IF res.error = None THEN 201 ELSE 400] }
        /\ UNCHANGED <<permissions, role_permissions, user_roles, organizations,
                       verify_tables, resp, settings_vars>>

\* The role check of remove_role_from_user.
rbac_remove_role_from_user_begin(id, current_user_id, user_role_id) ==
    LET ok == PlatformAdminGate(current_user_id)
    IN  /\ ~ \E q \in inflight : q.id = id
        /\ inflight' = inflight \cup
               { [id |-> id, op |-> "remove_role_from_user", caller |-> current_user_id,
                  role_data |-> None, user_role_id |-> user_role_id,
                  pc |-> IF ok THEN "write" ELSE "done",
                  status |-> IF ok THEN 0 ELSE 403] }
        /\ UNCHANGED <<rbac_tables, verify_tables, muts, resp, settings_vars>>

\* The delete of remove_role_from_user and its answer.
rbac_remove_role_from_user_delete(q) ==
    LET res == RBACService_remove_role_from_user(q.user_role_id)
    IN  /\ q.op = "remove_role_from_user"
        /\ q.pc = "write"
        /\ res.error = None => muts < MaxMuts
        /\ user_roles' = res.user_roles
        /\ muts' = IF res.error = None THEN muts + 1 ELSE muts
        /\ inflight' = (inflight \ {q}) \cup
               { [q EXCEPT !.pc = "done",
                           !.status = IF res.error = None THEN 204
                                      ELSE IF ContainsNotFound(res.error) THEN 404
                                      ELSE 500] }
        /\ UNCHANGED <<roles, permissions, role_permissions, organizations,
                       verify_tables, resp, settings_vars>>

NextGate ==
    \/ \E id \in RequestIds, u \in Users, d \in RoleCreateInputs :
          rbac_create_role_begin(id, u, d)
    \/ \E q \in inflight : rbac_create_role_insert(q)
    \/ \E id \in RequestIds, u \in Users, i \in UserRoleIds :
          rbac_remove_role_from_user_begin(id, u, i)
    \/ \E q \in inflight : rbac_remove_role_from_user_delete(q)

SpecGate == Init /\ [][NextGate]_vars

----------------------------------------------------------------------------
(* GET /notifications/verify-email, one call at a time: the validation of   *)
(* the token, get_user_by_id, update_user_by_id and the marking of the      *)
(* token are four calls with nothing holding them together, and the calls   *)
(* of several requests interleave.  The update may raise or return no user; *)
(* the provider then has not confirmed the email.                           *)

UpdateOutcomes == {"user", "no_user", "raises"}

\* validate_verification_token; no user id: 400.  The request notes which
\* requests were already answered when it arrived.
verify_email_validate(id, token) ==
    LET user_id == validate_verification_token(token)
    IN  /\ ~ \E q \in inflight : q.id = id
        /\ inflight' = inflight \cup
               { [id |-> id, op |-> "verify_email", token |-> token, user_id |-> user_id,
                  pc |-> IF user_id = None THEN "done" ELSE "get_user_by_id",
                  status |-> IF user_id = None THEN 400 ELSE 0,
                  body |-> None, calls |-> {},
                  answered |-> {d.id : d \in {x \in inflight : x.pc = "done"}}] }
        /\ UNCHANGED <<rbac_tables, verify_tables, muts, resp, settings_vars>>

\* get_user_by_id; no user: 404; a confirmed email: the token is marked
\* next and the answer will be already_verified
verify_email_get_user_by_id(q) ==
    LET user_response == get_user_by_id(q.user_id)
        calls == q.calls \cup {"get_user_by_id"}
    IN  /\ q.op = "verify_email"
        /\ q.pc = "get_user_by_id"
        /\ inflight' = (inflight \ {q}) \cup
               { IF user_response = {}
                 THEN [q EXCEPT !.pc = "done", !.status = 404, !.calls = calls]
                 ELSE IF TheUser(user_response).email_confirmed
                 THEN [q EXCEPT !.pc = "use_verification_token",
                                !.body = "already_verified", !.calls = calls]
                 ELSE [q EXCEPT !.pc = "update_user_by_id", !.calls = calls] }
        /\ UNCHANGED <<rbac_tables, verify_tables, muts, resp, settings_vars>>

\* The update with the token marked in the same step, whatever the outcome.
verify_email_update_user_by_id_token_first(q, outcome) ==
    LET calls == q.calls \cup {"update_user_by_id"}
    IN  /\ q.op = "verify_email"
        /\ q.pc = "update_user_by_id"
        /\ tokens' = use_verification_token(tokens, q.token)
        /\ auth_users' = IF outcome = "user"
                         THEN {IF u.id = q.user_id THEN [u EXCEPT !.email_confirmed = TRUE]
                               ELSE u : u \in auth_users}
                         ELSE auth_users
        /\ inflight' = (inflight \ {q}) \cup
               { IF outcome = "user"
                 THEN [q EXCEPT !.pc = "done", !.status = 200, !.body = "success",
                                !.calls = calls]
                 ELSE [q EXCEPT !.pc = "done", !.status = 500, !.calls = calls] }
        /\ UNCHANGED <<rbac_tables, issued, now, muts, resp, settings_vars>>

\* update_user_by_id with email_confirm; a raise or no user: 500
verify_email_update_user_by_id(q, outcome) ==
    LET calls == q.calls \cup {"update_user_by_id"}
    IN  /\ q.op = "verify_email"
        /\ q.pc = "update_user_by_id"
        /\ auth_users' = IF outcome = "user"
                         THEN {IF u.id = q.user_id THEN [u EXCEPT !.email_confirmed = TRUE]
                               ELSE u : u \in auth_users}
                         ELSE auth_users
        /\ inflight' = (inflight \ {q}) \cup
               { IF outcome = "user"
                 THEN [q EXCEPT !.pc = "use_verification_token", !.body = "success",
                                !.calls = calls]
                 ELSE [q EXCEPT !.pc = "done", !.status = 500, !.calls = calls] }
        /\ UNCHANGED <<rbac_tables, tokens, issued, now, muts, resp, settings_vars>>

\* use_verification_token, and the answer
verify_email_use_verification_token(q) ==
    /\ q.op = "verify_email"
    /\ q.pc = "use_verification_token"
    /\ tokens' = use_verification_token(tokens, q.token)
    /\ inflight' = (inflight \ {q}) \cup {[q EXCEPT !.pc = "done", !.status = 200]}
    /\ UNCHANGED <<rbac_tables, auth_users, issued, now, muts, resp, settings_vars>>

NextVerifyCalls ==
    \/ Receive
    \/ Idle /\ \E u \in VerificationUserInputs : notifications_send_verification_email(u)
    \/ Tick
    \/ \E id \in RequestIds, t \in Tokens : verify_email_validate(id, t)
    \/ \E q \in inflight : verify_email_get_user_by_id(q)
    \/ \E q \in inflight, outcome \in UpdateOutcomes : verify_email_update_user_by_id(q, outcome)
    \/ \E q \in inflight : verify_email_use_verification_token(q)

SpecVerifyCalls == Init /\ [][NextVerifyCalls]_vars

----------------------------------------------------------------------------
(* Properties *)

\* The step is the handling of one request of one of the routes ops.
Handled(ops) == resp = NoResp /\ resp' # NoResp /\ resp'.op \in ops

\* user holds the role named name in scope org, read off the tables.
Holds(user, name, org) ==
    \E x \in user_roles : \E r \in roles :
        /\ r.name = name
        /\ x.role_id = r.id
        /\ x.user_id = user
        /\ x.organization_id = org

\* Some role user holds in scope org is linked to the permission named name.
Linked(user, name, org) ==
    \E x \in user_roles : \E rp \in role_permissions : \E p \in permissions :
        /\ x.user_id = user
        /\ x.organization_id = org
        /\ rp.role_id = x.role_id
        /\ rp.permission_id = p.id
        /\ p.name = name

PlatformScopeRows == {x \in user_roles : x.organization_id = None}

AssignOps == {"assign_role_to_user", "user_roles.assign_role_to_user"}
RemoveOps == {"remove_role_from_user", "user_roles.remove_role_from_user"}
RolesOfUserOps == {"get_roles_for_user", "user_roles.get_roles_for_user"}
OwnReadOps ==
    {"get_roles_for_user", "get_user_roles_with_permissions",
     "user_roles.get_roles_for_user", "user_roles.get_user_roles_with_permissions"}
CatalogOps ==
    {"create_role", "update_role", "delete_role",
     "create_permission", "update_permission", "delete_permission",
     "assign_permission_to_role", "remove_permission_from_role"}

\* C1: a DELETE /rbac/roles/{id} whose role has is_system_role = true
\* answers 400 whoever the caller is, and the role, its role_permissions rows
\* and the user_roles rows that reference it are still there afterwards.
C1_SystemRoleDeleteRefused ==
    [][ (Handled({"delete_role"}) /\ \E r \in roles : r.id = resp'.role /\ r.is_system_role)
        => /\ resp'.status = 400
           /\ roles' = roles
           /\ role_permissions' = role_permissions
           /\ user_roles' = user_roles ]_vars

\* C2: no two user_roles rows have the same user_id and the same scope, the
\* platform-wide scope (organization_id absent) counting as one scope.
C2_OneRolePerUserPerScope ==
    \A x \in user_roles : \A y \in user_roles :
        (x.user_id = y.user_id /\ x.organization_id = y.organization_id) => x = y

\* C3: the platform-scope rows of user_roles change only in a request whose
\* caller holds platform_admin at platform scope; a platform-scope assign and
\* a remove by any other caller answer 403 and leave user_roles as it was.
C3_PlatformScopeOnlyByPlatformAdmin ==
    [][ /\ PlatformScopeRows' # PlatformScopeRows
            => Holds(resp'.caller, "platform_admin", None)
        /\ ( /\ \/ Handled(AssignOps) /\ resp'.org = None
                \/ Handled(RemoveOps)
             /\ ~Holds(resp'.caller, "platform_admin", None) )
            => (resp'.status = 403 /\ user_roles' = user_roles) ]_vars

\* An org_admin asked for a platform-wide assignment and was refused.
C3_Witness ==
    /\ resp.op \in AssignOps
    /\ resp.org = None
    /\ resp.status = 403
    /\ \E o \in OrgIds : Holds(resp.caller, "org_admin", o)
    /\ ~Holds(resp.caller, "platform_admin", None)

\* C5: an organization-scoped assignment by a caller who is not
\* platform_admin goes through only if the caller holds org_admin in that
\* very organization; otherwise it answers 403 and user_roles is unchanged.
C5_OrgAssignOnlyByOwnOrgAdmin ==
    [][ ( /\ Handled(AssignOps)
          /\ resp'.org # None
          /\ ~Holds(resp'.caller, "platform_admin", None) )
        => IF Holds(resp'.caller, "org_admin", resp'.org)
           THEN resp'.status # 403
           ELSE resp'.status = 403 /\ user_roles' = user_roles ]_vars

\* The org_admin of one organization asked for an assignment in another
\* organization, which exists, and was refused.
C5_Witness ==
    /\ resp.op \in AssignOps
    /\ resp.org # None
    /\ resp.status = 403
    /\ \E o \in organizations : o.id = resp.org
    /\ \E a \in OrgIds : a # resp.org /\ Holds(resp.caller, "org_admin", a)
    /\ ~Holds(resp.caller, "platform_admin", None)

\* C4: a role, permission or role-permission write takes effect only for a
\* caller who holds platform_admin at platform scope; every other caller
\* gets 403 and roles, permissions and role_permissions stay as they were.
C4_CatalogWritesOnlyByPlatformAdmin ==
    [][ /\ <<roles, permissions, role_permissions>>' # <<roles, permissions, role_permissions>>
            => Holds(resp'.caller, "platform_admin", None)
        /\ (Handled(CatalogOps) /\ ~Holds(resp'.caller, "platform_admin", None))
            => /\ resp'.status = 403
               /\ <<roles, permissions, role_permissions>>'
                    = <<roles, permissions, role_permissions>> ]_vars

\* A caller who holds platform_admin in an organization only, not at
\* platform scope, asked for a catalog write and was refused.
C4_Witness ==
    /\ resp.op \in CatalogOps
    /\ resp.status = 403
    /\ \E o \in OrgIds : Holds(resp.caller, "platform_admin", o)
    /\ ~Holds(resp.caller, "platform_admin", None)

\* C6 as stated: the permission check answers true exactly when a role the
\* user holds in the queried scope is linked to the permission of that name,
\* and answers false, without an error, when the user has no role in the
\* queried scope.
C6_CheckPermissionAsStated ==
    [][ Handled({"check_permission"})
        => /\ resp'.body = "true" <=> Linked(resp'.user, resp'.name, resp'.org)
           /\ (\A x \in user_roles :
                  ~(x.user_id = resp'.user /\ x.organization_id = resp'.org))
                => resp'.body = "false" ]_vars

\* C6, amended: the permission check answers true exactly when a role the
\* user holds in the queried scope is linked to the permission of that name;
\* when a permission of that name exists and no such role is linked to it
\* (in particular when the user has no role in the scope) the answer is
\* false without an error; when no permission has that name the check
\* fails with "Permission not found".
C6_CheckPermission ==
    [][ Handled({"check_permission"})
        => /\ resp'.body = "true" <=> Linked(resp'.user, resp'.name, resp'.org)
           /\ ((\E p \in permissions : p.name = resp'.name)
                 /\ ~Linked(resp'.user, resp'.name, resp'.org))
                => resp'.body = "false"
           /\ (\A p \in permissions : p.name # resp'.name)
                => resp'.body = "Permission not found" ]_vars

\* The check said false for a permission the user has through a role held
\* in another scope.
C6_Witness ==
    /\ resp.op = "check_permission"
    /\ resp.body = "false"
    /\ \E o \in Scopes : o # resp.org /\ Linked(resp.user, resp.name, o)

\* C7: the role check answers true exactly when user_roles has a row for the
\* user whose role_id is the id of the role of that name and whose
\* organization_id is the queried scope (absent for the platform scope).
C7_CheckUserRole ==
    [][ (Handled({"check_user_role"}) /\ resp'.status # 403)
        => /\ (resp'.status = 200 /\ resp'.body = "true")
                <=> Holds(resp'.user, resp'.name, resp'.org)
           /\ (\E r \in roles : r.name = resp'.name) => resp'.status = 200 ]_vars

\* The check said false at platform scope for a user who holds
\* platform_admin inside an organization.
C7_Witness ==
    /\ resp.op = "check_user_role"
    /\ resp.name = "platform_admin"
    /\ resp.org = None
    /\ resp.status = 200
    /\ resp.body = "false"
    /\ \E o \in OrgIds : Holds(resp.user, "platform_admin", o)

\* C8: a caller who is not platform_admin, is not the queried user and
\* holds no role in the queried organization (org_admin, for role queries)
\* gets 403 and no data from the roles of another user, and from the
\* notification logs and stats of an organization.
C8_ForeignReadsForbidden ==
    [][ /\ ( /\ Handled(RolesOfUserOps)
             /\ resp'.caller # resp'.user
             /\ \A o \in Scopes : ~Holds(resp'.caller, "platform_admin", o)
             /\ ~Holds(resp'.caller, "org_admin", resp'.org) )
            => (resp'.status = 403 /\ resp'.data = {})
        /\ ( /\ Handled({"get_notification_logs", "get_notification_stats"})
             /\ resp'.org # None
             /\ \A o \in Scopes : ~Holds(resp'.caller, "platform_admin", o)
             /\ \A x \in user_roles :
                   ~(x.user_id = resp'.caller /\ x.organization_id = resp'.org) )
            => (resp'.status = 403 /\ resp'.body = None) ]_vars

\* C9: a caller reading their own roles or roles-with-permissions is let
\* through; 403 goes only to a caller who is not the queried user, not
\* platform_admin and not org_admin of the queried organization.
C9_OwnRolesReadable ==
    [][ (Handled(OwnReadOps) /\ resp'.status = 403)
        => /\ resp'.caller # resp'.user
           /\ ~Holds(resp'.caller, "platform_admin", None)
           /\ ~Holds(resp'.caller, "org_admin", resp'.org) ]_vars

\* C10: a verify-email request goes through only with a token that was
\* issued, is unexpired and is unused, and then for the user the token was
\* issued to; with any other token (expired, used, never issued) it answers
\* 400 and leaves the email-confirmation flags and the token rows as they
\* were.
C10_OnlyLiveTokenVerifies ==
    [][ Handled({"verify_email"})
        => LET live == {x \in tokens : /\ x.token = resp'.name
                                       /\ x.token \in issued
                                       /\ ~x.used
                                       /\ now < x.expires_at}
           IN  IF live = {}
               THEN /\ resp'.status = 400
                    /\ auth_users' = auth_users
                    /\ tokens' = tokens
               ELSE /\ resp'.status = 200
                    /\ \E x \in live : x.user_id = resp'.user
                    /\ \A u \in auth_users :
                          u.email_confirmed
                            \/ u.id = resp'.user
                            \/ u \in auth_users' ]_vars

\* A token that had been marked used was presented again and refused.
C10_Witness ==
    /\ resp.op = "verify_email"
    /\ resp.status = 400
    /\ \E x \in tokens : x.token = resp.name /\ x.used

\* C11: when create_verification_token runs for a user who already had a
\* token, afterwards exactly one token validates for that user, it is the
\* new one, and validate_verification_token rejects every token the user
\* had before; the table never holds two rows of one user.
C11_OneLiveTokenPerUser ==
    [][ /\ \A x \in tokens' : \A y \in tokens' : x.user_id = y.user_id => x = y
        /\ (Handled({"send_verification_email"}) /\ resp'.status = 200
               /\ \E x \in tokens : x.user_id = resp'.user)
            => /\ {t \in Tokens : validate_verification_token(t)' = resp'.user}
                     = {resp'.name}
               /\ \A x \in tokens :
                     x.user_id = resp'.user => validate_verification_token(x.token)' = None
               /\ Cardinality({x \in tokens' : /\ x.user_id = resp'.user
                                                /\ ~x.used
                                                /\ now' < x.expires_at}) = 1 ]_vars

\* A second token was created for a user: two tokens were issued and the
\* only row of the table, the new token's, is that user's (a row leaves the
\* table only when its own user's next token replaces it).
C11_Witness ==
    /\ resp.op = "send_verification_email"
    /\ resp.status = 200
    /\ Cardinality(issued) >= 2
    /\ tokens # {}
    /\ \A x \in tokens : x.user_id = resp.user /\ x.token = resp.name

\* C12: a verify-email request with a token that validates, for a user
\* whose email is already confirmed, marks the token used, answers
\* already_verified and not success, and makes no confirmation update at
\* the identity provider.
C12_AlreadyVerified ==
    [][ (/\ Handled({"verify_email"})
         /\ validate_verification_token(resp'.name) # None
         /\ \E u \in auth_users :
               u.id = validate_verification_token(resp'.name) /\ u.email_confirmed)
        => /\ resp'.status = 200
           /\ resp'.body = "already_verified"
           /\ "update_user_by_id" \notin resp'.data
           /\ auth_users' = auth_users
           /\ \E x \in tokens' : x.token = resp'.name /\ x.used
           /\ \A t \in Tokens : t = resp'.name => validate_verification_token(t)' = None ]_vars

\* A token issued to a user whose email was confirmed in the meantime was
\* presented and marked used.
C12_Witness ==
    /\ resp.op = "verify_email"
    /\ resp.body = "already_verified"
    /\ \E x \in tokens : x.token = resp.name /\ x.used /\ x.user_id = resp.user
    /\ \E u \in auth_users : u.id = resp.user /\ u.email_confirmed

\* The user_roles rows of state tables rows that grant user the role named
\* org_admin in a personal organization of orgs that was not in before.
PersonalOrgAdminRows(rows, orgs, before, user) ==
    {x \in rows :
        /\ x.user_id = user
        /\ \E r \in roles : r.id = x.role_id /\ r.name = "org_admin"
        /\ \E o \in orgs \ before :
              o.id = x.organization_id /\ o.name = PersonalOrganizationName(user)}

C15_SelfOrganizationSurvivesAssignment ==
    [][ Handled({"create_self_organization"})
        => /\ (organizations' # organizations) = (resp'.status = 201)
           /\ resp'.status = 201
              => /\ \E o \in organizations' \ organizations : o.id = resp'.org
                 /\ organizations \subseteq organizations'
                 /\ IF /\ \E r \in roles : r.name = "org_admin"
                       /\ \E u \in auth_users : u.id = resp'.caller
                    THEN \E x \in user_roles' \ user_roles :
                            /\ x.user_id = resp'.caller
                            /\ x.organization_id = resp'.org
                            /\ \E r \in roles : r.id = x.role_id /\ r.name = "org_admin"
                    ELSE user_roles' = user_roles ]_vars

\* An organization was created and returned although nobody was made its
\* org_admin.
C15_Witness ==
    /\ resp.op = "create_self_organization"
    /\ resp.status = 201
    /\ \E o \in organizations : o.id = resp.org
    /\ ~ \E x \in user_roles : x.organization_id = resp.org

\* The authorized assign-role requests for user u in scope o.
AssignRequestsFor(u, o) ==
    {q \in inflight : /\ q.data.user_id = u
                      /\ q.data.organization_id = o
                      /\ q.status # 403}

\* C16: of two or more authorized assign-role requests for the same user and
\* scope, handled at once for a user who has no role in that scope, exactly
\* one is answered 201 and every other one gets the constraint violation
\* (400), and exactly one user_roles row for the user and scope exists once
\* all are answered.
C16_ExactlyOneAssignSucceeds ==
    \A u \in Users, o \in Scopes :
        LET S == AssignRequestsFor(u, o)
        IN  ( /\ Cardinality(S) >= 2
              /\ \A q \in S : q.pc = "done"
              /\ ~ \E x \in BootstrapUserRoles : x.user_id = u /\ x.organization_id = o )
            => /\ Cardinality({q \in S : q.status = 201}) = 1
               /\ \A q \in S : q.status \in {201, 400}
               /\ Cardinality({x \in user_roles : x.user_id = u /\ x.organization_id = o}) = 1

\* The routes whose authorization is the lookup of platform_admin for the
\* caller at platform scope.
PlatformAdminLookupOps == CatalogOps \cup {"admin_only_endpoint"}

\* C17: a request whose authorization lookup itself fails is answered 500,
\* not 403.
C17_FailedLookupIsInternalError ==
    [][ ( /\ Handled(PlatformAdminLookupOps)
          /\ user_has_role(resp'.caller, "platform_admin", None).error # None )
        => resp'.status = 500 ]_vars

\* C18: GET /auth/me with no Authorization header, or with one that does not
\* begin with the seven characters "Bearer ", answers 401, makes no call to
\* the identity provider and does not create the client.
C18_NoBearerNoProviderCall ==
    [][ ( /\ Handled({"get_current_user"})
          /\ LET h == AuthorizationChars(resp'.name)
             IN  \/ resp'.name = "(none)"
                 \/ Len(h) < 7
                 \/ \E i \in 1..7 : h[i] # BearerPrefix[i] )
        => /\ resp'.status = 401
           /\ resp'.data = {}
           /\ client' = client ]_vars

\* A header with the scheme in lower case was refused without a call, in a
\* deployment whose provider is configured.
C18_Witness ==
    /\ resp.op = "get_current_user"
    /\ resp.name = "bearer tok-alice"
    /\ resp.status = 401
    /\ resp.data = {}
    /\ SupabaseConfig_is_configured

\* C19: GET /health reports the supabase check as not_configured whenever
\* the provider's URL or its service key is absent or empty, and then
\* neither creates the client nor calls the provider; it reports ok or error
\* only when both are set.
C19_HealthNotConfigured ==
    [][ Handled({"health_check"})
        => /\ resp'.body \in {"ok", "error", "not_configured"}
           /\ (supabase_url \in {None, ""} \/ supabase_service_key \in {None, ""})
              => /\ resp'.body = "not_configured"
                 /\ resp'.data = {}
                 /\ client' = client
                 /\ client' = None
           /\ resp'.body \in {"ok", "error"}
              => supabase_url = "given" /\ supabase_service_key = "given" ]_vars

\* The URL is set and the key is not: not_configured, without a call.
C19_Witness ==
    /\ resp.op = "health_check"
    /\ resp.body = "not_configured"
    /\ supabase_url = "given"
    /\ supabase_service_key = None
    /\ resp.data = {}
    /\ client = None

\* Some character of the password v belongs to class.
HasCharacterOf(class, v) == {i \in DOMAIN v : v[i] \in class} # {}

\* C20: a sign-up request whose password lacks an uppercase letter, a
\* lowercase letter, a digit or a special character, has fewer than 8 or
\* more than 128 characters, or differs from password_confirm, is rejected
\* as a validation error (422) with no call to the identity provider and
\* nothing created.
C20_BadPasswordRejected ==
    [][ ( /\ Handled({"sign_up"})
          /\ LET v == PasswordChars(resp'.name)
                 w == PasswordChars(resp'.role)
             IN  \/ ~HasCharacterOf(UppercaseLetters, v)
                 \/ ~HasCharacterOf(LowercaseLetters, v)
                 \/ ~HasCharacterOf(Digits, v)
                 \/ ~HasCharacterOf(SpecialCharacters, v)
                 \/ Len(v) < 8
                 \/ Len(v) > 128
                 \/ v # w )
        => /\ resp'.status = 422
           /\ resp'.body = "validation"
           /\ resp'.data = {}
           /\ UNCHANGED <<auth_users, organizations, user_roles, client>> ]_vars

\* A repeated password without a special character was rejected in a
\* configured deployment for an email nobody has registered.
C20_Witness ==
    /\ resp.op = "sign_up"
    /\ resp.name = "Abcdefg1"
    /\ resp.role = "Abcdefg1"
    /\ resp.user = "carol"
    /\ resp.status = 422
    /\ resp.data = {}
    /\ SupabaseConfig_is_configured

\* Every role_permissions row has its role and its permission, every
\* user_roles row its role and, when it names one, its organization.
NoDanglingRows ==
    /\ \A x \in role_permissions :
          /\ \E r \in roles : r.id = x.role_id
          /\ \E p \in permissions : p.id = x.permission_id
    /\ \A x \in user_roles :
          /\ \E r \in roles : r.id = x.role_id
          /\ x.organization_id # None => \E o \in organizations : o.id = x.organization_id

\* C21: when the row of a role is deleted, no role_permissions row and no
\* user_roles row of the role is left to delete, and when the row of a
\* permission is deleted no role_permissions row of it is left; and before
\* and after every step of any sequence of creates, assignments and deletes
\* no role_permissions or user_roles row references a role, permission or
\* organization that is gone.
C21_JoinRowsFirstAndNoDanglingRows ==
    [][ /\ NoDanglingRows
        /\ NoDanglingRows'
        /\ \A r \in roles \ roles' :
             /\ ~ \E x \in role_permissions : x.role_id = r.id
             /\ ~ \E x \in user_roles : x.role_id = r.id
        /\ \A p \in permissions \ permissions' :
             ~ \E x \in role_permissions : x.permission_id = p.id ]_vars

\* The delete of org_admin, which alice holds and which has permissions, has
\* removed the role's rows of both join tables and is about to delete the
\* role.
C21_Witness ==
    \E q \in inflight :
        /\ q.op = "delete_role"
        /\ q.target = "r_org_admin"
        /\ DeleteCalls(q.op)[q.pc] = "roles"
        /\ \E r \in roles : r.id = q.target
        /\ ~ \E x \in role_permissions : x.role_id = q.target
        /\ ~ \E x \in user_roles : x.role_id = q.target

\* C28: when delete-role or delete-permission ends with an error because
\* the role or permission does not exist (404) or because the last delete,
\* that of the parent row, failed (500), role_permissions and user_roles are
\* as the request found them.
C28_FailedDeleteLeavesJoinTables ==
    [][ \A q \in inflight :
          ( /\ inflight' = {}
            /\ q.pc = Len(DeleteCalls(q.op))
            /\ resp'.status \in {404, 500} )
          => /\ role_permissions' = q.role_permissions0
             /\ user_roles' = q.user_roles0 ]_vars

UpdateUserRoleOps == {"update_user_role", "user_roles.update_user_role"}

\* C22: a successful update of a user-role writes every supplied field and
\* only those: the row's role_id and organization_id take the supplied
\* values, a field not supplied keeps its value, and nothing else in the
\* table changes.
C22_UpdateWritesSuppliedFields ==
    [][ ( /\ Handled(UpdateUserRoleOps)
          /\ resp'.status = 200 )
        => \A i \in resp'.data :
             \E old \in user_roles, new \in user_roles' :
                /\ old.id = i
                /\ new.id = i
                /\ new.user_id = old.user_id
                /\ new.role_id = IF resp'.role # None THEN resp'.role ELSE old.role_id
                /\ new.organization_id = IF resp'.org # None THEN resp'.org
                                         ELSE old.organization_id
                /\ user_roles' \ {new} = user_roles \ {old} ]_vars

\* C23: is_system_role is true only for the rows of the three seeded roles;
\* no role created through the API is a system role.
C23_OnlySeededSystemRoles ==
    \A r \in roles : r.is_system_role => \E seeded \in SeedRoles : seeded.id = r.id

\* C24: the write of a create-role request is only ever made while its
\* caller holds platform_admin at platform scope; no other request can take
\* the assignment away between the request's role check and its write.
C24_WriteOnlyWhilePlatformAdmin ==
    [][ \A q \in inflight :
          ( /\ q.op = "create_role"
            /\ q.pc = "write"
            /\ \E done \in inflight' : done.id = q.id /\ done.pc = "done"
            /\ roles' # roles )
          => Holds(q.caller, "platform_admin", None) ]_vars

\* The answered verify-email requests that carried token.
VerifyAnswered(token) ==
    {q \in inflight : q.op = "verify_email" /\ q.token = token /\ q.pc = "done"}

\* C25: of the verify-email requests that carry the same token, however
\* their calls interleave, at most one is answered success and at most one
\* issues the provider's confirmation update.
C25_OneSuccessPerToken ==
    \A t \in Tokens :
        /\ Cardinality({q \in VerifyAnswered(t) : q.body = "success"}) <= 1
        /\ Cardinality({q \in VerifyAnswered(t) : "update_user_by_id" \in q.calls}) <= 1

\* C29: a token is marked used only in a state where the provider has the
\* user's email confirmed; a confirmation update that raises or returns no
\* user ends the request with 500 and leaves the token table, so the
\* token's used mark, and the provider's users as they were.
C29_TokenUsedOnlyAfterConfirmation ==
    [][ /\ \A x \in tokens :
             ( /\ ~x.used
               /\ \E y \in tokens' : y.token = x.token /\ y.used )
             => \E u \in auth_users : u.id = x.user_id /\ u.email_confirmed
        /\ \A q \in inflight :
             ( /\ q.op = "verify_email"
               /\ q.pc = "update_user_by_id"
               /\ \E d \in inflight' : d.id = q.id /\ d.pc = "done" )
             => /\ \E d \in inflight' : d.id = q.id /\ d.status = 500
                /\ tokens' = tokens
                /\ auth_users' = auth_users ]_vars

\* A request whose confirmation update failed was answered 500, and a later
\* request with the same token was answered success.
C29_Witness ==
    \E t \in Tokens : \E failed \in VerifyAnswered(t), later \in VerifyAnswered(t) :
        /\ failed.status = 500
        /\ "update_user_by_id" \in failed.calls
        /\ failed.id \in later.answered
        /\ later.status = 200
        /\ later.body = "success"
        /\ later.calls = {"get_user_by_id", "update_user_by_id"}
        /\ \E x \in tokens : x.token = t /\ x.used

\* C26: the administrator routes of notification events and templates
\* answer 403 to every caller who does not hold platform_admin at platform
\* scope, a caller holding a role named platform_admin inside an
\* organization included.
C26_NotificationAdminOnlyPlatformScope ==
    [][ ( /\ Handled(NotificationAdminOps)
          /\ ~Holds(resp'.caller, "platform_admin", None) )
        => resp'.status = 403 ]_vars

\* C27: GET /organizations/{org_id} returns the organization to a caller
\* who holds org_admin, or a role carrying organization:read, in that
\* organization, whether or not the caller holds a platform-scope role.
C27_OrganizationMemberReadsOrganization ==
    [][ ( /\ Handled({"get_organization"})
          /\ \E o \in organizations : o.id = resp'.org
          /\ \/ Holds(resp'.caller, "org_admin", resp'.org)
             \/ user_has_permission(resp'.caller, "organization:read", resp'.org).has )
        => resp'.status = 200 ]_vars

\* C30: a create_self_organization request whose organization insert fails
\* is answered 400, and adds no organization row and no user_roles row.
C30_FailedSelfOrganizationIsBadRequest ==
    [][ ( /\ Handled({"create_self_organization"})
          /\ organizations' = organizations )
        => ( /\ resp'.status = 400
             /\ user_roles' = user_roles ) ]_vars

====
